---- MODULE Spec2Model ----
(***************************************************************************)
(* FCMPanel: the multi-account dispatch subsystem.                         *)
(*   - the account store (models/FirebaseAccount.js, routes/accounts.js)   *)
(*   - the pool of live provider clients (config/firebase.js)              *)
(*   - the dispatch routes (routes/notifications.js, routes/topics.js)     *)
(*   - the local subscription mirror (routes/topics.js, api/devices.js)    *)
(* Every route handler is an async function: it runs without interruption *)
(* up to its next await, so each action below is one such stretch.        *)
(***************************************************************************)
EXTENDS Integers, Sequences, FiniteSets, TLC

VARIABLES
    accounts,        \* FirebaseAccount table: id -> row
    firebaseAdmins,  \* the Map of live clients, in insertion order
    constructed,     \* per app name: how many times admin.initializeApp built it
    callers,         \* in-flight getFirebaseAdmin / initializeFirebaseAccount calls
    removals,        \* app.delete() promises of removeFirebaseAccount not yet settled
    areq,            \* in-flight requests of routes/accounts.js
    testApps,        \* throwaway apps of /accounts/test-credentials that are live
    treq,            \* in-flight requests of /accounts/test-credentials
    intake,          \* the form POST /notifications validated and the message built of it
    codec,           \* a secret written through the privateKey setter and read back
    creds,           \* which credentials each account row holds and each client was built of
    devices,         \* Device table, in row order
    history,         \* NotificationHistory table, in insertion order
    dreq,            \* the dispatch request being served
    calls,           \* provider calls issued, in order
    topics,          \* Topic table: name -> row
    subs,            \* TopicSubscription table, in insertion order
    sreq,            \* the registration / subscription requests being served
    clock,           \* wall clock read by new Date()
    pairUnique       \* whether the schema carries the (topicId, deviceId) unique index

vars == <<accounts, firebaseAdmins, constructed, callers, removals, areq, testApps, treq, intake,
          codec, creds, devices, history, dreq, calls, topics, subs, sreq, clock, pairUnique>>

poolVars == <<accounts, firebaseAdmins, constructed, callers>>
acctVars == <<removals, areq, testApps, treq, intake, codec, creds>>
dispVars == <<devices, history, dreq, calls>>
subsVars == <<topics, subs, sreq, clock, pairUnique>>

----------------------------------------------------------------------------
(* Bounds of the model *)

NAccounts == 2
NCallers == 3
NTests == 3
NReq == 2
NDevices == 2
MaxBatches == 3

AccountIds == 1..NAccounts
CallerIds == 1..NCallers
ReqIds == 1..NReq
TestIds == 1..NTests

\* accountId = null, and the key 'default' of the environment-configured client
None == 0
EnvKey == -1

----------------------------------------------------------------------------
(* The account store *)

NoAccount == [exists |-> FALSE, isDefault |-> FALSE, isActive |-> FALSE]

AccountRows == {NoAccount} \cup
    [exists : {TRUE}, isDefault : BOOLEAN, isActive : BOOLEAN]

Defaults(acc) == {a \in AccountIds : acc[a].exists /\ acc[a].isDefault}

\* the stores the add / edit / set-default / delete routes leave behind when
\* they run one after the other
StoreStates == {acc \in [AccountIds -> AccountRows] : Cardinality(Defaults(acc)) <= 1}

\* FirebaseAccount.findOne({ where: { isDefault: true, isActive: true } })
FindDefaultActive(acc) ==
    LET s == {a \in AccountIds : acc[a].exists /\ acc[a].isDefault /\ acc[a].isActive}
    IN  IF s = {} THEN None ELSE CHOOSE a \in s : \A b \in s : a <= b

----------------------------------------------------------------------------
(* The client pool: const firebaseAdmins = new Map() *)

\* a client is the app object admin.initializeApp returned: its name and which
\* construction of that name it is; NoClient is undefined / null
NoClient == [name |-> None, inst |-> 0]

Keys(m) == {m[i].key : i \in 1..Len(m)}

MapHas(m, k) == k \in Keys(m)

MapGet(m, k) ==
    IF MapHas(m, k)
    THEN m[CHOOSE i \in 1..Len(m) : m[i].key = k].client
    ELSE NoClient

MapSet(m, k, c) ==
    IF MapHas(m, k)
    THEN [i \in 1..Len(m) |-> IF m[i].key = k THEN [key |-> k, client |-> c] ELSE m[i]]
    ELSE Append(m, [key |-> k, client |-> c])

\* the pools the boot sequence and earlier requests can leave behind: the
\* environment client first (initializeAllFirebaseAccounts sets it before any
\* other), then clients of accounts of the store, in any order
PoolOf(hasEnv, ks) ==
    (IF hasEnv THEN <<[key |-> EnvKey, client |-> [name |-> EnvKey, inst |-> 0]]>> ELSE <<>>)
    \o [i \in 1..Len(ks) |-> [key |-> ks[i], client |-> [name |-> ks[i], inst |-> 0]]]

KeyOrders ==
    UNION {{s \in [1..n -> AccountIds] : \A i, j \in 1..n : i # j => s[i] # s[j]}
           : n \in 0..NAccounts}

PoolStates(acc) ==
    {PoolOf(e, ks) : e \in BOOLEAN,
                     ks \in {o \in KeyOrders : \A i \in 1..Len(o) : acc[o[i]].exists}}

----------------------------------------------------------------------------
(* config/firebase.js: initializeFirebaseAccount and getFirebaseAdmin *)

\* admin.initializeApp(..., account.id) followed by firebaseAdmins.set
Construct(m, cnt, a) ==
    [pool |-> MapSet(m, a, [name |-> a, inst |-> cnt[a] + 1]),
     cnt |-> [cnt EXCEPT ![a] = @ + 1],
     client |-> [name |-> a, inst |-> cnt[a] + 1]]

FallbackEnvOnly(m) ==
    IF MapHas(m, EnvKey) THEN MapGet(m, EnvKey) ELSE NoClient

\* the else branch of getFirebaseAdmin when the store has no active default:
\* the 'default' client if present, otherwise the first client of the Map
Fallback(m) ==
    IF MapHas(m, EnvKey) THEN MapGet(m, EnvKey)
    ELSE IF Len(m) > 0 THEN m[1].client
    ELSE NoClient

IdleCaller == [pc |-> "idle", fn |-> "none", arg |-> None, acct |-> None,
               result |-> NoClient, outcome |-> "pending"]

Finish(c, client) ==
    [callers[c] EXCEPT !.pc = "done", !.result = client,
                       !.outcome = IF client = NoClient THEN "null" ELSE "client"]

Throw(c) == [callers[c] EXCEPT !.pc = "done", !.outcome = "error"]

\* getFirebaseAdmin(accountId) up to its first await: the explicit-id hit
\* returns at once, anything else goes to the store for the default account
CallGet(c, id) ==
    /\ callers[c].pc = "idle"
    /\ IF id # None /\ MapHas(firebaseAdmins, id)
       THEN callers' = [callers EXCEPT ![c] =
                [Finish(c, MapGet(firebaseAdmins, id)) EXCEPT !.fn = "get", !.arg = id]]
       ELSE callers' = [callers EXCEPT ![c] =
                [@ EXCEPT !.pc = "findOne", !.fn = "get", !.arg = id]]
    /\ UNCHANGED <<accounts, firebaseAdmins, constructed>>

\* the findOne for the default account has answered
GetFindOne(c) ==
    /\ callers[c].pc = "findOne"
    /\ LET d == FindDefaultActive(accounts) IN
       IF d # None
       THEN IF ~MapHas(firebaseAdmins, d)
            THEN \E ok \in BOOLEAN :
                   IF ok
                   THEN LET r == Construct(firebaseAdmins, constructed, d) IN
                        /\ firebaseAdmins' = r.pool
                        /\ constructed' = r.cnt
                        /\ callers' = [callers EXCEPT ![c] =
                              [@ EXCEPT !.pc = "update", !.acct = d, !.result = r.client]]
                   ELSE /\ callers' = [callers EXCEPT ![c] = Throw(c)]
                        /\ UNCHANGED <<firebaseAdmins, constructed>>
            ELSE /\ callers' = [callers EXCEPT ![c] = Finish(c, MapGet(firebaseAdmins, d))]
                 /\ UNCHANGED <<firebaseAdmins, constructed>>
       ELSE /\ callers' = [callers EXCEPT ![c] = Finish(c, Fallback(firebaseAdmins))]
            /\ UNCHANGED <<firebaseAdmins, constructed>>
    /\ UNCHANGED accounts

\* initializeFirebaseAccount(account) called directly (routes/accounts.js), up
\* to its await of the lastUsed update
CallInit(c, a) ==
    /\ callers[c].pc = "idle"
    /\ accounts[a].exists
    /\ IF MapHas(firebaseAdmins, a)
       THEN /\ callers' = [callers EXCEPT ![c] =
                  [Finish(c, MapGet(firebaseAdmins, a)) EXCEPT !.fn = "init", !.arg = a]]
            /\ UNCHANGED <<firebaseAdmins, constructed>>
       ELSE \E ok \in BOOLEAN :
              IF ok
              THEN LET r == Construct(firebaseAdmins, constructed, a) IN
                   /\ firebaseAdmins' = r.pool
                   /\ constructed' = r.cnt
                   /\ callers' = [callers EXCEPT ![c] =
                         [@ EXCEPT !.pc = "update", !.fn = "init", !.arg = a,
                                   !.acct = a, !.result = r.client]]
              ELSE /\ callers' = [callers EXCEPT ![c] =
                         [Throw(c) EXCEPT !.fn = "init", !.arg = a]]
                   /\ UNCHANGED <<firebaseAdmins, constructed>>
    /\ UNCHANGED accounts

\* FirebaseAccount.update({ lastUsed }) has answered: initializeFirebaseAccount
\* returns its firebaseApp, and getFirebaseAdmin then reads the Map again
UpdateReturns(c) ==
    /\ callers[c].pc = "update"
    /\ \E ok \in BOOLEAN :
         IF ok
         THEN callers' = [callers EXCEPT ![c] =
                 IF callers[c].fn = "init"
                 THEN Finish(c, callers[c].result)
                 ELSE Finish(c, MapGet(firebaseAdmins, callers[c].acct))]
         ELSE callers' = [callers EXCEPT ![c] = Throw(c)]
    /\ UNCHANGED <<accounts, firebaseAdmins, constructed>>

InitCnt == [k \in AccountIds \cup {EnvKey} |-> 0]

\* the parts of the state a specification does not exercise stay as they are
\* when the process has started and no request is being served
IdleCallers ==
    /\ constructed = InitCnt
    /\ callers = [c \in CallerIds |-> IdleCaller]

\* every row holds the credentials it was created with, and every pooled client
\* was built of them; no edit has replaced credentials yet
BootCredentials ==
    [cur |-> [a \in AccountIds |-> 0], built |-> [a \in AccountIds |-> 0], edited |-> {}]

IdleAccountRoutes ==
    /\ removals = {}
    /\ areq = [r \in ReqIds |-> [pc |-> "idle"]]
    /\ testApps = {}
    /\ treq = [t \in TestIds |-> [pc |-> "idle"]]
    /\ intake = [pc |-> "idle"]
    /\ codec = [pc |-> "idle"]
    /\ creds = BootCredentials

IdleDispatch ==
    /\ devices = <<>>
    /\ history = <<>>
    /\ dreq = [pc |-> "idle"]
    /\ calls = <<>>

IdleSubscriptions ==
    /\ topics = <<>>
    /\ subs = <<>>
    /\ sreq = [r \in ReqIds |-> [pc |-> "idle"]]
    /\ clock = 0
    /\ pairUnique = FALSE

InitPool ==
    /\ accounts \in StoreStates
    /\ firebaseAdmins \in PoolStates(accounts)
    /\ IdleCallers
    /\ IdleAccountRoutes
    /\ IdleDispatch
    /\ IdleSubscriptions

NextPool ==
    /\ \/ \E c \in CallerIds, id \in AccountIds \cup {None} : CallGet(c, id)
       \/ \E c \in CallerIds : GetFindOne(c)
       \/ \E c \in CallerIds, a \in AccountIds : CallInit(c, a)
       \/ \E c \in CallerIds : UpdateReturns(c)
    /\ UNCHANGED <<acctVars, dispVars, subsVars>>

SpecPool == InitPool /\ [][NextPool]_vars

AllDone == \A c \in CallerIds : callers[c].pc = "done"

\* the pool had no entry for x when the callers started: an entry present at
\* the start is one built at boot (inst 0), and SpecPool never removes one
AbsentAtStart(x) == ~(MapHas(firebaseAdmins, x) /\ MapGet(firebaseAdmins, x).inst = 0)

EntriesFor(m, k) == Cardinality({i \in 1..Len(m) : m[i].key = k})

\* C2: N callers concurrently asking (through getFirebaseAdmin or
\* initializeFirebaseAccount) for the same account that has no pool entry:
\* the client of that account is constructed exactly once, the pool holds
\* exactly one entry for it and every caller receives that client.
C2_SingleConstruction ==
    \A x \in AccountIds :
        (/\ AllDone
         /\ AbsentAtStart(x)
         /\ \A c \in CallerIds : callers[c].arg = x /\ callers[c].outcome # "error")
        => /\ constructed[x] = 1
           /\ EntriesFor(firebaseAdmins, x) = 1
           /\ \A c \in CallerIds : callers[c].result = MapGet(firebaseAdmins, x)

\* C3: getFirebaseAdmin(accountId) with an explicit id returns the client of
\* exactly that account (initialized from the stored account if the pool has
\* no entry) and never a client that belongs to a different account.
C3_ExplicitIdReturnsThatAccount ==
    \A c \in CallerIds :
        (callers[c].pc = "done" /\ callers[c].fn = "get" /\ callers[c].arg # None)
        => /\ callers[c].outcome = "client" => callers[c].result.name = callers[c].arg
           /\ (/\ accounts[callers[c].arg].exists
               /\ accounts[callers[c].arg].isActive
               /\ callers[c].outcome # "error")
                  => callers[c].outcome = "client"

----------------------------------------------------------------------------
(* config/firebase.js: removeFirebaseAccount *)

\* the synchronous part: app.delete() is started on the client found under
\* the key; the Map entry goes only when that promise resolves
StartRemoval(m, rem, a) ==
    IF MapHas(m, a) THEN rem \cup {[key |-> a, client |-> MapGet(m, a)]} ELSE rem

MapDelete(m, k) == SelectSeq(m, LAMBDA e : e.key # k)

\* app.delete() settles: .then deletes the key from the Map, .catch only logs
RemovalSettles(p) ==
    /\ p \in removals
    /\ removals' = removals \ {p}
    /\ \E ok \in BOOLEAN :
         firebaseAdmins' = IF ok THEN MapDelete(firebaseAdmins, p.key) ELSE firebaseAdmins
    /\ UNCHANGED <<accounts, constructed, callers, areq>>

----------------------------------------------------------------------------
(* routes/accounts.js *)

NewReq(kind, id, isDefault, isActive) ==
    [pc |-> "start", kind |-> kind, id |-> id, isDefault |-> isDefault,
     isActive |-> isActive, outcome |-> "pending"]

Done(r, outcome) == [areq EXCEPT ![r] = [@ EXCEPT !.pc = "done", !.outcome = outcome]]

Goto(r, pc) == [areq EXCEPT ![r] = [@ EXCEPT !.pc = pc]]

\* FirebaseAccount.update({ isDefault: false }, { where: { isDefault: true } }),
\* with id: { [Op.ne]: except } in the edit route (except = None elsewhere)
ClearDefaults(acc, except) ==
    [a \in AccountIds |->
        IF acc[a].exists /\ acc[a].isDefault /\ a # except
        THEN [acc[a] EXCEPT !.isDefault = FALSE]
        ELSE acc[a]]

\* account.update(values): UPDATE ... WHERE id = a, no row touched if it is gone
UpdateRow(acc, a, isDefault, isActive) ==
    IF acc[a].exists
    THEN [acc EXCEPT ![a] = [exists |-> TRUE, isDefault |-> isDefault, isActive |-> isActive]]
    ELSE acc

SetDefaultRow(acc, a) ==
    IF acc[a].exists THEN [acc EXCEPT ![a].isDefault = TRUE] ELSE acc

FreeIds(acc) == {a \in AccountIds : ~acc[a].exists}

\* the call initializeFirebaseAccount(account) of a route, up to the await of
\* its lastUsed update: already in the Map, built and stored, or thrown
RouteInit(r, a, next) ==
    IF MapHas(firebaseAdmins, a)
    THEN /\ areq' = Done(r, "ok")
         /\ UNCHANGED <<firebaseAdmins, constructed>>
    ELSE \E ok \in BOOLEAN :
           IF ok
           THEN LET c == Construct(firebaseAdmins, constructed, a) IN
                /\ firebaseAdmins' = c.pool
                /\ constructed' = c.cnt
                /\ areq' = Goto(r, next)
           ELSE /\ areq' = Done(r, "initFailed")
                /\ UNCHANGED <<firebaseAdmins, constructed>>

\* a request arrives; POST /accounts/add: findOne({ where: { name } })
StartAdd(r, isDefault) ==
    /\ areq[r].pc = "idle"
    /\ FreeIds(accounts) # {}
    /\ \E taken \in BOOLEAN :
         IF taken
         THEN /\ \E a \in AccountIds : accounts[a].exists
              /\ areq' = [areq EXCEPT ![r] =
                    [NewReq("add", None, isDefault, TRUE) EXCEPT !.pc = "done",
                                                                 !.outcome = "nameExists"]]
         ELSE areq' = [areq EXCEPT ![r] =
                    [NewReq("add", None, isDefault, TRUE) EXCEPT
                        !.pc = IF isDefault THEN "clear" ELSE "create"]]
    /\ UNCHANGED <<accounts, firebaseAdmins, constructed, callers, removals>>

\* POST /accounts/add: the update that unsets the existing defaults
AddClear(r) ==
    /\ areq[r].pc = "clear" /\ areq[r].kind = "add"
    /\ accounts' = ClearDefaults(accounts, None)
    /\ areq' = Goto(r, "create")
    /\ UNCHANGED <<firebaseAdmins, constructed, callers, removals>>

\* POST /accounts/add: FirebaseAccount.create, then initializeFirebaseAccount;
\* a create the store rejects (unique name, store error) goes to the catch
AddCreate(r) ==
    /\ areq[r].pc = "create"
    /\ \E ok \in BOOLEAN :
         IF ok /\ FreeIds(accounts) # {}
         THEN LET a == CHOOSE x \in FreeIds(accounts) : \A y \in FreeIds(accounts) : x <= y IN
              /\ accounts' = [accounts EXCEPT ![a] =
                    [exists |-> TRUE, isDefault |-> areq[r].isDefault, isActive |-> TRUE]]
              /\ \E ctor \in BOOLEAN :
                   IF ctor
                   THEN LET c == Construct(firebaseAdmins, constructed, a) IN
                        /\ firebaseAdmins' = c.pool
                        /\ constructed' = c.cnt
                        /\ areq' = [areq EXCEPT ![r] = [@ EXCEPT !.pc = "lastUsed", !.id = a]]
                   ELSE /\ areq' = [areq EXCEPT ![r] =
                              [@ EXCEPT !.pc = "done", !.id = a, !.outcome = "initFailed"]]
                        /\ UNCHANGED <<firebaseAdmins, constructed>>
         ELSE /\ areq' = Done(r, "failed")
              /\ UNCHANGED <<accounts, firebaseAdmins, constructed>>
    /\ UNCHANGED <<callers, removals>>

\* the lastUsed update of initializeFirebaseAccount answers (add and edit)
RouteInitReturns(r) ==
    /\ areq[r].pc = "lastUsed"
    /\ \E ok \in BOOLEAN : areq' = Done(r, IF ok THEN "ok" ELSE "initFailed")
    /\ UNCHANGED <<accounts, firebaseAdmins, constructed, callers, removals>>

\* POST /accounts/edit/:id: findByPk, the name check, and the decision whether
\* to unset the other defaults, taken on the row as it was read
StartEdit(r, a, isDefault, isActive) ==
    /\ areq[r].pc = "idle"
    /\ IF ~accounts[a].exists
       THEN areq' = [areq EXCEPT ![r] =
                [NewReq("edit", a, isDefault, isActive) EXCEPT !.pc = "done",
                                                               !.outcome = "notFound"]]
       ELSE areq' = [areq EXCEPT ![r] =
                [NewReq("edit", a, isDefault, isActive) EXCEPT
                    !.pc = IF isDefault /\ ~accounts[a].isDefault THEN "clear" ELSE "save"]]
    /\ UNCHANGED <<accounts, firebaseAdmins, constructed, callers, removals>>

EditClear(r) ==
    /\ areq[r].pc = "clear" /\ areq[r].kind = "edit"
    /\ accounts' = ClearDefaults(accounts, areq[r].id)
    /\ areq' = Goto(r, "save")
    /\ UNCHANGED <<firebaseAdmins, constructed, callers, removals>>

\* account.update(updateData); a deactivated account is removed from the pool,
\* an active one is read again and initialized
EditSave(r) ==
    /\ areq[r].pc = "save"
    /\ accounts' = UpdateRow(accounts, areq[r].id, areq[r].isDefault, areq[r].isActive)
    /\ IF ~areq[r].isActive
       THEN /\ removals' = StartRemoval(firebaseAdmins, removals, areq[r].id)
            /\ areq' = Done(r, "ok")
       ELSE /\ areq' = Goto(r, "refind")
            /\ UNCHANGED removals
    /\ UNCHANGED <<firebaseAdmins, constructed, callers>>

EditRefind(r) ==
    /\ areq[r].pc = "refind"
    /\ IF accounts[areq[r].id].exists
       THEN RouteInit(r, areq[r].id, "lastUsed")
       ELSE /\ areq' = Done(r, "initFailed")
            /\ UNCHANGED <<firebaseAdmins, constructed>>
    /\ UNCHANGED <<accounts, callers, removals>>

\* POST /accounts/delete/:id: findByPk, removeFirebaseAccount, then destroy
StartDelete(r, a) ==
    /\ areq[r].pc = "idle"
    /\ IF ~accounts[a].exists
       THEN /\ areq' = [areq EXCEPT ![r] =
                  [NewReq("delete", a, FALSE, FALSE) EXCEPT !.pc = "done",
                                                            !.outcome = "notFound"]]
            /\ UNCHANGED removals
       ELSE /\ areq' = [areq EXCEPT ![r] =
                  [NewReq("delete", a, FALSE, FALSE) EXCEPT !.pc = "destroy"]]
            /\ removals' = StartRemoval(firebaseAdmins, removals, a)
    /\ UNCHANGED <<accounts, firebaseAdmins, constructed, callers>>

DeleteDestroy(r) ==
    /\ areq[r].pc = "destroy"
    /\ accounts' = [accounts EXCEPT ![areq[r].id] = NoAccount]
    /\ areq' = Done(r, "ok")
    /\ UNCHANGED <<firebaseAdmins, constructed, callers, removals>>

\* POST /accounts/default/:id: findByPk, unset every default, set this one
StartSetDefault(r, a) ==
    /\ areq[r].pc = "idle"
    /\ IF ~accounts[a].exists
       THEN areq' = [areq EXCEPT ![r] =
                [NewReq("default", a, TRUE, FALSE) EXCEPT !.pc = "done",
                                                          !.outcome = "notFound"]]
       ELSE areq' = [areq EXCEPT ![r] =
                [NewReq("default", a, TRUE, FALSE) EXCEPT !.pc = "clear"]]
    /\ UNCHANGED <<accounts, firebaseAdmins, constructed, callers, removals>>

SetDefaultClear(r) ==
    /\ areq[r].pc = "clear" /\ areq[r].kind = "default"
    /\ accounts' = ClearDefaults(accounts, None)
    /\ areq' = Goto(r, "set")
    /\ UNCHANGED <<firebaseAdmins, constructed, callers, removals>>

SetDefaultSet(r) ==
    /\ areq[r].pc = "set"
    /\ accounts' = SetDefaultRow(accounts, areq[r].id)
    /\ areq' = Done(r, "ok")
    /\ UNCHANGED <<firebaseAdmins, constructed, callers, removals>>

InitAccounts ==
    /\ accounts \in StoreStates
    /\ firebaseAdmins \in PoolStates(accounts)
    /\ IdleCallers
    /\ IdleAccountRoutes
    /\ IdleDispatch
    /\ IdleSubscriptions

NextAccounts ==
    /\ \/ \E r \in ReqIds, d \in BOOLEAN : StartAdd(r, d)
       \/ \E r \in ReqIds : AddClear(r)
       \/ \E r \in ReqIds : AddCreate(r)
       \/ \E r \in ReqIds : RouteInitReturns(r)
       \/ \E r \in ReqIds, a \in AccountIds, d \in BOOLEAN, act \in BOOLEAN : StartEdit(r, a, d, act)
       \/ \E r \in ReqIds : EditClear(r)
       \/ \E r \in ReqIds : EditSave(r)
       \/ \E r \in ReqIds : EditRefind(r)
       \/ \E r \in ReqIds, a \in AccountIds : StartDelete(r, a)
       \/ \E r \in ReqIds : DeleteDestroy(r)
       \/ \E r \in ReqIds, a \in AccountIds : StartSetDefault(r, a)
       \/ \E r \in ReqIds : SetDefaultClear(r)
       \/ \E r \in ReqIds : SetDefaultSet(r)
       \/ \E p \in removals : RemovalSettles(p)
    /\ UNCHANGED <<testApps, treq, intake, codec, creds, dispVars, subsVars>>

SpecAccounts == InitAccounts /\ [][NextAccounts]_vars

\* C1: at every instant at most one account has isDefault = true, and once
\* the requests that mark accounts as default have finished exactly one
\* account is default.
C1_AtMostOneDefault ==
    /\ Cardinality(Defaults(accounts)) <= 1
    /\ (/\ \A r \in ReqIds : areq[r].pc = "done" /\ areq[r].kind = "default"
                             /\ areq[r].outcome = "ok"
        /\ \E r \in ReqIds : accounts[areq[r].id].exists)
       => Cardinality(Defaults(accounts)) = 1

----------------------------------------------------------------------------
(* The dispatch routes: routes/notifications.js, routes/topics.js *)

\* the FCM multicast limit of the broadcast loop
BATCH_SIZE == 500

TopicNames == {"all", "news"}

NoTopic == [exists |-> FALSE, isActive |-> FALSE]

\* getFirebaseAdmin(id) run to completion with no other request in between:
\* every result its awaits allow (client built or not, lastUsed written or not)
GetAdminNow(acc, m, cnt, id) ==
    IF id # None /\ MapHas(m, id)
    THEN {[pool |-> m, cnt |-> cnt, outcome |-> "client", client |-> MapGet(m, id)]}
    ELSE LET d == FindDefaultActive(acc) IN
         IF d # None
         THEN IF ~MapHas(m, d)
              THEN LET r == Construct(m, cnt, d) IN
                   {[pool |-> r.pool, cnt |-> r.cnt, outcome |-> "client", client |-> r.client],
                    [pool |-> r.pool, cnt |-> r.cnt, outcome |-> "error", client |-> NoClient],
                    [pool |-> m, cnt |-> cnt, outcome |-> "error", client |-> NoClient]}
              ELSE {[pool |-> m, cnt |-> cnt, outcome |-> "client", client |-> MapGet(m, d)]}
         ELSE {[pool |-> m, cnt |-> cnt,
                outcome |-> IF Fallback(m) = NoClient THEN "null" ELSE "client",
                client |-> Fallback(m)]}

\* FirebaseAccount.findOne({ where: { isDefault: true } })
FindDefault(acc) ==
    IF Defaults(acc) = {} THEN None
    ELSE CHOOSE a \in Defaults(acc) : \A b \in Defaults(acc) : a <= b

\* the accountName column: an account's name, or one of the literals
NameOfAccount(a) == [lit |-> "name", of |-> a]
Literal(l) == [lit |-> l, of |-> None]

\* Device.findAll({ where: { isActive: true } }).map(device => device.token)
ActiveTokens(devs) ==
    LET act == SelectSeq(devs, LAMBDA d : d.isActive)
    IN  [i \in 1..Len(act) |-> act[i].token]

\* Device.findAll({ where: { id: { [Op.in]: ids }, isActive: true } }) tokens
TokensOfIds(devs, ids) ==
    LET sel == SelectSeq(devs, LAMBDA d : d.isActive /\ d.id \in ids)
    IN  [i \in 1..Len(sel) |-> sel[i].token]

DedupKeepingAll(s) == s

\* [...new Set(deviceTokens)]: the first occurrence of each token, in order
Dedup(s) ==
    LET first == {i \in 1..Len(s) : \A j \in 1..(i - 1) : s[j] # s[i]}
        tagged == [i \in 1..Len(s) |-> [at |-> i, tok |-> s[i]]]
        kept == SelectSeq(tagged, LAMBDA e : e.at \in first)
    IN  [p \in 1..Len(kept) |-> kept[p].tok]

Min(a, b) == IF a <= b THEN a ELSE b

BatchOneTooMany(tokens, i) == SubSeq(tokens, i + 1, Min(i + BATCH_SIZE + 1, Len(tokens)))

\* tokens.slice(i, i + BATCH_SIZE)
Batch(tokens, i) == SubSeq(tokens, i + 1, Min(i + BATCH_SIZE, Len(tokens)))

\* what the provider answers to one multicast call: every token accepted, the
\* call failing as a whole, the first token reported as no longer registered,
\* or every token rejected for another reason
BatchOutcomes == {"ok", "throw", "unregistered", "rejected"}

Range(q) == {q[i] : i \in 1..Len(q)}

ProviderResult(batch, o) ==
    [threw |-> o = "throw",
     failed |-> IF o = "unregistered" THEN {batch[1]}
                ELSE IF o = "rejected" THEN Range(batch)
                ELSE {},
     code |-> IF o = "unregistered" THEN "messaging/registration-token-not-registered"
              ELSE IF o = "rejected" THEN "messaging/invalid-argument"
              ELSE "none"]

\* batchResponse.successCount += batchResult.successCount (nothing in the catch)
AddSucceeded(count, batch, res) ==
    IF res.threw THEN count ELSE count + Len(batch) - Cardinality(res.failed)

AddFailedDroppingBatch(count, batch, res) ==
    IF res.threw THEN count ELSE count + Cardinality(res.failed)

\* batchResponse.failureCount += batchResult.failureCount, and in the catch
\* batchResponse.failureCount += batch.length
AddFailed(count, batch, res) ==
    IF res.threw THEN count + Len(batch) ELSE count + Cardinality(res.failed)

Call(client, kind, tokens, res) ==
    [client |-> client, kind |-> kind, tokens |-> tokens,
     threw |-> res.threw, failed |-> res.failed, code |-> res.code]

NewDispatch(route, accountId) ==
    [pc |-> "start", route |-> route, accountId |-> accountId, account |-> None,
     accountName |-> Literal("Default"), client |-> NoClient, mode |-> "none",
     tokens |-> <<>>, i |-> 0, successCount |-> 0, failureCount |-> 0,
     outcome |-> "pending", devicesBefore |-> devices, collected |-> <<>>]

AfterFindAllWithoutCheck(tokens) == IF Len(tokens) = 0 THEN "record" ELSE "batch"

\* if (devices.length === 0) throw new Error('No active devices found ...'),
\* else the batch loop
AfterFindAll(tokens) == IF Len(tokens) = 0 THEN "catch" ELSE "batch"

\* POST /notifications up to the first provider call: the account lookup,
\* getFirebaseAdmin(firebaseAccount.id) and the choice of the target
NotifyStart(target, hasTarget, accountId) ==
    /\ dreq.pc = "idle"
    /\ LET acct == IF accountId # None
                   THEN (IF accounts[accountId].exists THEN accountId ELSE None)
                   ELSE FindDefault(accounts)
           req == [NewDispatch("notify", accountId) EXCEPT
                       !.account = acct, !.accountName = NameOfAccount(acct)]
       IN
       IF acct = None
       THEN /\ dreq' = [req EXCEPT !.pc = "done", !.outcome = "noAccount"]
            /\ UNCHANGED <<firebaseAdmins, constructed>>
       ELSE \E g \in GetAdminNow(accounts, firebaseAdmins, constructed, acct) :
              /\ firebaseAdmins' = g.pool
              /\ constructed' = g.cnt
              /\ IF g.outcome # "client"
                 THEN dreq' = [req EXCEPT !.pc = "catch"]
                 ELSE IF target \in {"device", "topic"} /\ hasTarget
                 THEN dreq' = [req EXCEPT !.pc = "send", !.client = g.client, !.mode = target]
                 ELSE LET tokens == ActiveTokens(devices) IN
                      dreq' = [req EXCEPT
                                  !.pc = AfterFindAll(tokens),
                                  !.client = g.client, !.mode = "all", !.tokens = tokens]
    /\ UNCHANGED <<accounts, callers, acctVars, devices, history, calls, subsVars>>

\* firebaseAdmin.messaging().send(message) answers (device or topic message)
SingleSend ==
    /\ dreq.pc = "send"
    /\ \E ok \in BOOLEAN :
         /\ calls' = Append(calls, Call(dreq.client, "send", <<>>,
                                        ProviderResult(<<>>, IF ok THEN "ok" ELSE "throw")))
         /\ dreq' = [dreq EXCEPT !.pc = IF ok THEN "record" ELSE "catch"]
    /\ UNCHANGED <<poolVars, acctVars, devices, history, subsVars>>

BatchClientFromPool(req, pool) == Fallback(pool)

\* the client a batch goes through: the firebaseAdmin constant the handler
\* resolved before the loop, whatever the pool holds by now
BatchClient(req, pool) == req.client

\* one turn of the broadcast loop: sendEachForMulticast on the next slice,
\* the counts added up, a failed call counted as a failed batch
NotifyBatch ==
    /\ dreq.pc = "batch" /\ dreq.route = "notify"
    /\ \E o \in BatchOutcomes :
         LET batch == Batch(dreq.tokens, dreq.i)
             res == ProviderResult(batch, o)
             next == dreq.i + BATCH_SIZE
         IN
         /\ calls' = Append(calls, Call(BatchClient(dreq, firebaseAdmins), "multicast",
                                        batch, res))
         /\ dreq' = [dreq EXCEPT
               !.successCount = AddSucceeded(@, batch, res),
               !.failureCount = AddFailed(@, batch, res),
               !.i = next,
               !.pc = IF next < Len(dreq.tokens) THEN "batch" ELSE "record"]
    /\ UNCHANGED <<poolVars, acctVars, devices, history, subsVars>>

\* POST /notifications/send-devices up to its provider call
SendDevicesStart(accountId, ids, custom) ==
    /\ dreq.pc = "idle"
    /\ LET req == NewDispatch("sendDevices", accountId) IN
       IF ids = {} /\ custom = <<>>
       THEN /\ dreq' = [req EXCEPT !.pc = "done", !.outcome = "rejected"]
            /\ UNCHANGED <<firebaseAdmins, constructed>>
       ELSE \E g \in GetAdminNow(accounts, firebaseAdmins, constructed, accountId) :
              /\ firebaseAdmins' = g.pool
              /\ constructed' = g.cnt
              /\ IF g.outcome = "error"
                 THEN dreq' = [req EXCEPT !.pc = "catch"]
                 ELSE LET name == IF accountId # None /\ accounts[accountId].exists
                                  THEN NameOfAccount(accountId) ELSE Literal("Default")
                          tokens == Dedup(TokensOfIds(devices, ids) \o custom)
                      IN
                      IF Len(tokens) = 0
                      THEN dreq' = [req EXCEPT !.pc = "done", !.outcome = "rejected"]
                      ELSE dreq' = [req EXCEPT
                              !.pc = IF g.client = NoClient THEN "catch" ELSE "batch",
                              !.accountName = name, !.client = g.client,
                              !.mode = "devices", !.tokens = tokens,
                              !.collected = TokensOfIds(devices, ids) \o custom]
    /\ UNCHANGED <<accounts, callers, acctVars, devices, history, calls, subsVars>>

\* the one sendEachForMulticast call of send-devices, on the whole token list
SendDevicesMulticast ==
    /\ dreq.pc = "batch" /\ dreq.route = "sendDevices"
    /\ \E o \in BatchOutcomes :
         LET res == ProviderResult(dreq.tokens, o) IN
         /\ calls' = Append(calls, Call(dreq.client, "multicast", dreq.tokens, res))
         /\ dreq' = IF res.threw
                    THEN [dreq EXCEPT !.pc = "catch"]
                    ELSE [dreq EXCEPT
                            !.successCount = Len(dreq.tokens) - Cardinality(res.failed),
                            !.failureCount = Cardinality(res.failed),
                            !.pc = "record"]
    /\ UNCHANGED <<poolVars, acctVars, devices, history, subsVars>>

\* POST /topics/send-notification up to its provider call
TopicSendStart(topic, accountId) ==
    /\ dreq.pc = "idle"
    /\ LET req == NewDispatch("topicSend", accountId) IN
       IF ~(topics[topic].exists /\ topics[topic].isActive)
       THEN /\ dreq' = [req EXCEPT !.pc = "done", !.outcome = "rejected"]
            /\ UNCHANGED <<firebaseAdmins, constructed>>
       ELSE \E g \in GetAdminNow(accounts, firebaseAdmins, constructed, accountId) :
              /\ firebaseAdmins' = g.pool
              /\ constructed' = g.cnt
              /\ dreq' = IF g.outcome = "client"
                         THEN [req EXCEPT !.pc = "send", !.client = g.client, !.mode = "topic"]
                         ELSE [req EXCEPT !.pc = "done",
                                          !.outcome = IF g.outcome = "null" THEN "noProvider"
                                                      ELSE "error"]
    /\ UNCHANGED <<accounts, callers, acctVars, devices, history, calls, subsVars>>

HistoryRow(status, accountId, accountName) ==
    [route |-> dreq.route, status |-> status, accountId |-> accountId,
     accountName |-> accountName, successCount |-> dreq.successCount,
     failureCount |-> dreq.failureCount]

\* the NotificationHistory.create that follows a send that did not throw
RecordSuccess ==
    /\ dreq.pc = "record"
    /\ history' = Append(history,
          IF dreq.route = "notify"
          THEN HistoryRow("Success", dreq.accountId, dreq.accountName)
          ELSE IF dreq.route = "sendDevices"
          THEN HistoryRow("Success: n, Failed: m", dreq.accountId, dreq.accountName)
          ELSE HistoryRow("Sent", dreq.accountId,
                          IF dreq.accountId = None THEN Literal("Default")
                          ELSE IF accounts[dreq.accountId].exists
                          THEN NameOfAccount(dreq.accountId)
                          ELSE Literal("Unknown")))
    /\ dreq' = [dreq EXCEPT !.pc = "done", !.outcome = "sent"]
    /\ UNCHANGED <<poolVars, acctVars, devices, calls, subsVars>>

\* the catch block: notifications.js writes a Failed row, topics.js only
\* flashes the error
CatchError ==
    /\ dreq.pc = "catch"
    /\ history' = IF dreq.route = "topicSend" THEN history
                  ELSE Append(history,
                         HistoryRow("Failed", dreq.accountId,
                                    IF dreq.accountId # None THEN Literal("Custom")
                                    ELSE Literal("Default")))
    /\ dreq' = [dreq EXCEPT !.pc = "done", !.outcome = "error"]
    /\ UNCHANGED <<poolVars, acctVars, devices, calls, subsVars>>

\* the deviceIds and customTokens a send-devices form can carry: no device,
\* one, two, or one more than a batch holds; no token, a token of the table
\* (once or twice) or a new one
IdChoices == {{}, {1}, {1, 2}, 1..Min(Len(devices), BATCH_SIZE + 1)}
CustomChoices == {<<>>, <<1>>, <<1, 1>>, <<Len(devices) + 1>>}

NextDispatch ==
    \/ \E t \in {"device", "topic", "all"}, h \in BOOLEAN, a \in AccountIds \cup {None} :
          NotifyStart(t, h, a)
    \/ SingleSend
    \/ NotifyBatch
    \/ \E a \in AccountIds \cup {None}, ids \in IdChoices, c \in CustomChoices :
          SendDevicesStart(a, ids, c)
    \/ SendDevicesMulticast
    \/ \E t \in TopicNames, a \in AccountIds \cup {None} : TopicSendStart(t, a)
    \/ RecordSuccess
    \/ CatchError

DeviceTable(n, inactive) ==
    [i \in 1..n |-> [id |-> i, token |-> i, isActive |-> i \notin inactive]]

TopicStates ==
    {[t \in TopicNames |-> IF t = "all" \/ news THEN [exists |-> TRUE, isActive |-> TRUE]
                           ELSE NoTopic] : news \in BOOLEAN}

IdleDispatchOn(devs) ==
    /\ devices = devs
    /\ history = <<>>
    /\ dreq = [pc |-> "idle"]
    /\ calls = <<>>

IdleSubscriptionsOn(tps) ==
    /\ topics = tps
    /\ subs = <<>>
    /\ sreq = [r \in ReqIds |-> [pc |-> "idle"]]
    /\ clock = 0
    /\ pairUnique = FALSE

\* one dispatch request against every store and pool, a few devices
InitDispatch ==
    /\ accounts \in StoreStates
    /\ firebaseAdmins \in PoolStates(accounts)
    /\ IdleCallers
    /\ IdleAccountRoutes
    /\ \E n \in 0..NDevices, inactive \in SUBSET (1..NDevices) :
          /\ inactive \subseteq 1..n
          /\ IdleDispatchOn(DeviceTable(n, inactive))
    /\ \E tps \in TopicStates : IdleSubscriptionsOn(tps)

SpecDispatch == InitDispatch /\ [][NextDispatch]_vars

\* device tables around the multiples of the batch size
DeviceCounts ==
    {q * BATCH_SIZE + r : q \in 0..(MaxBatches - 1), r \in {0, 1, 200}}

\* one dispatch request with the default account ready, many devices
InitBroadcast ==
    /\ accounts = [a \in AccountIds |->
                     IF a = 1 THEN [exists |-> TRUE, isDefault |-> TRUE, isActive |-> TRUE]
                     ELSE NoAccount]
    /\ firebaseAdmins = PoolOf(FALSE, <<1>>)
    /\ IdleCallers
    /\ IdleAccountRoutes
    /\ \E n \in DeviceCounts, inactive \in {{}, {1}} :
          /\ inactive \subseteq 1..n
          /\ IdleDispatchOn(DeviceTable(n, inactive))
    /\ \E tps \in TopicStates : IdleSubscriptionsOn(tps)

SpecBroadcast == InitBroadcast /\ [][NextDispatch]_vars

----------------------------------------------------------------------------
(* Claims about the dispatch routes *)

Finished == dreq.pc = "done"

IsBroadcast == dreq.pc # "idle" /\ dreq.route = "notify" /\ dreq.mode = "all"

LoopOver == IsBroadcast /\ dreq.pc \in {"record", "catch", "done"}

CeilDiv(k, b) == (k + b - 1) \div b

NoCallThrew == \A j \in 1..Len(calls) : ~calls[j].threw

FailedOf(call) == IF call.threw THEN Len(call.tokens) ELSE Cardinality(call.failed)

SucceededOf(call) == IF call.threw THEN 0 ELSE Len(call.tokens) - Cardinality(call.failed)

RECURSIVE SumFailed(_, _)
SumFailed(q, j) == IF j = 0 THEN 0 ELSE FailedOf(q[j]) + SumFailed(q, j - 1)

RECURSIVE SumSucceeded(_, _)
SumSucceeded(q, j) == IF j = 0 THEN 0 ELSE SucceededOf(q[j]) + SumSucceeded(q, j - 1)

\* C4: every multicast provider call of any dispatch path carries at most
\* 500 tokens.
C4_MulticastWithinLimit ==
    \A j \in 1..Len(calls) :
        calls[j].kind = "multicast" => Len(calls[j].tokens) <= BATCH_SIZE

\* C5: a broadcast over k tokens issues exactly ceil(k / 500) multicast
\* calls, call j carrying the j-th run of 500 tokens (the last one the
\* remainder), and when no call failed as a whole the aggregated
\* successCount + failureCount is k.
C5_BatchesPartitionTokens ==
    LoopOver =>
        LET k == Len(dreq.tokens) IN
        /\ Len(calls) = CeilDiv(k, BATCH_SIZE)
        /\ \A j \in 1..Len(calls) :
              calls[j].tokens = SubSeq(dreq.tokens, (j - 1) * BATCH_SIZE + 1,
                                       Min(j * BATCH_SIZE, k))
        /\ NoCallThrew => dreq.successCount + dreq.failureCount = k
        /\ (NoCallThrew /\ Finished /\ k > 0)
              => /\ Len(history) = 1
                 /\ history[1].successCount + history[1].failureCount = k

\* 1200 tokens went out as 500, 500, 200
C5_Witness ==
    /\ IsBroadcast /\ Finished /\ NoCallThrew
    /\ Len(dreq.tokens) = 2 * BATCH_SIZE + 200
    /\ Len(calls) = 3
    /\ Len(calls[1].tokens) = BATCH_SIZE
    /\ Len(calls[2].tokens) = BATCH_SIZE
    /\ Len(calls[3].tokens) = 200
    /\ dreq.failureCount > 0

\* C6: in a broadcast a batch whose provider call throws adds its whole size
\* to failureCount and nothing to successCount, the later batches are still
\* sent, and the request ends as an aggregated result, not in the catch block.
C6_FailedBatchCounted ==
    (IsBroadcast /\ Len(dreq.tokens) > 0) =>
        /\ dreq.pc # "catch"
        /\ dreq.failureCount = SumFailed(calls, Len(calls))
        /\ dreq.successCount = SumSucceeded(calls, Len(calls))
        /\ dreq.pc \in {"record", "done"}
              => Len(calls) = CeilDiv(Len(dreq.tokens), BATCH_SIZE)
        /\ Finished => /\ dreq.outcome = "sent"
                       /\ Len(history) = 1
                       /\ history[1].status = "Success"
                       /\ history[1].failureCount = dreq.failureCount

\* the first batch failed as a whole and a later one was delivered
C6_Witness ==
    /\ IsBroadcast /\ Finished
    /\ Len(calls) >= 2
    /\ calls[1].threw
    /\ ~calls[2].threw /\ calls[2].failed = {}
    /\ dreq.failureCount = BATCH_SIZE

\* C7: every dispatch request that attempts a provider send writes exactly
\* one history entry, whether the send succeeded or failed.
C7_OneHistoryEntry ==
    (Finished /\ Len(calls) > 0) => Len(history) = 1

\* the account a history row names: its accountId, else the account whose
\* name it carries (a literal such as 'Default' names no particular account)
RowNames(h, a) ==
    /\ h.accountId # None => h.accountId = a
    /\ h.accountName.lit = "name" => h.accountName.of = a

\* C8: the account recorded in the history entry of a dispatch request is the
\* account whose client carried the provider call.
C8_HistoryNamesUsedAccount ==
    (Finished /\ Len(calls) > 0 /\ Len(history) = 1)
        => RowNames(history[1], calls[1].client.name)

\* C9: after a multicast in which the provider reports a token as no longer
\* registered, the device holding that token is inactive and no other
\* device's isActive flag has changed.
C9_UnregisteredDeviceDeactivated ==
    Finished =>
        \A j \in 1..Len(calls) :
            (calls[j].kind = "multicast"
             /\ calls[j].code = "messaging/registration-token-not-registered")
            => \A d \in 1..Len(devices) :
                  IF devices[d].token \in calls[j].failed
                  THEN ~devices[d].isActive
                  ELSE devices[d].isActive = dreq.devicesBefore[d].isActive

----------------------------------------------------------------------------
(* The local subscription mirror: routes/api/devices.js, routes/topics.js *)

NTokens == 2

Tokens == 1..NTokens

\* the platform field of a registration: absent, or a platform name
PlatformChoices == {"none", "ios"}

\* crypto.createHash('sha256').update(token + platform).digest('hex')
\*   .substring(0, 16): one id per (token, platform)
GenerateDeviceId(token, platform) ==
    10 * token + (CASE platform = "unknown" -> 0
                    [] platform = "ios" -> 1
                    [] OTHER -> 2)

\* the id field of a registration: absent, or a string the caller chose
SuppliedIds == {None, GenerateDeviceId(1, "ios")}

\* the platform and id fields registrations are sent with
RegistrationForms ==
    {f \in [platform : PlatformChoices, id : SuppliedIds] :
        f.id # None => f.platform = "ios"}

First(S) == CHOOSE i \in S : \A j \in S : i <= j

\* Device.findOne({ where: { token } }): the row's position, 0 for null
FindDevice(devs, token) ==
    LET S == {i \in 1..Len(devs) : devs[i].token = token} IN
    IF S = {} THEN 0 ELSE First(S)

PairRows(rows, topic, device) ==
    {i \in 1..Len(rows) : rows[i].topic = topic /\ rows[i].device = device}

\* TopicSubscription.findOne({ where: { topicId, deviceId } })
FindSub(rows, topic, device) ==
    LET S == PairRows(rows, topic, device) IN
    IF S = {} THEN 0 ELSE First(S)

\* TopicSubscription.findOne({ where: { topicId, deviceId, isActive: true } })
FindActiveSub(rows, topic, device) ==
    LET S == {i \in PairRows(rows, topic, device) : rows[i].isActive} IN
    IF S = {} THEN 0 ELSE First(S)

\* Device.id is the primary key
IdTaken(devs, id) == \E i \in 1..Len(devs) : devs[i].id = id

ReferencesUnchecked(devs, device) == TRUE

\* TopicSubscription.deviceId references Device.id: a row can be written only
\* for a device the table holds
References(devs, device) == device # None /\ IdTaken(devs, device)

\* TopicSubscription.create({ topicId, deviceId, isActive: true }) with
\* subscribedAt defaulting to NOW; rejected by the (topicId, deviceId) index
\* when the schema has one, and by the foreign key when the device is gone
CreateSub(rows, unique, topic, device, now) ==
    IF (unique /\ PairRows(rows, topic, device) # {}) \/ ~References(devices, device)
    THEN [ok |-> FALSE, rows |-> rows]
    ELSE [ok |-> TRUE,
          rows |-> Append(rows, [topic |-> topic, device |-> device, isActive |-> TRUE,
                                 subscribedAt |-> now, unsubscribedAt |-> None])]

NewSubReq(kind, topic, tokens, now) ==
    [pc |-> "start", kind |-> kind, topic |-> topic, tokens |-> tokens, i |-> 1,
     platform |-> "none", id |-> None, device |-> 0, sub |-> 0, isNew |-> FALSE,
     failed |-> {}, startedAt |-> now, outcome |-> "pending",
     quiet |-> \A q \in ReqIds : sreq[q].pc \in {"idle", "done"},
     hadTopic |-> topics[topic].exists]

SubDone(r, outcome) ==
    sreq' = [sreq EXCEPT ![r].pc = "done", ![r].outcome = outcome]

\* the next token of the loop, or the response once the loop is over
NextToken(req, findPc) ==
    IF req.i + 1 > Len(req.tokens)
    THEN [req EXCEPT !.pc = "done", !.outcome = "ok", !.i = @ + 1]
    ELSE [req EXCEPT !.pc = findPc, !.i = @ + 1]

\* POST /api/devices/register up to Device.findOne
RegisterStart(r, token, platform, id, topic) ==
    /\ sreq[r].pc = "idle"
    /\ clock' = clock + 1
    /\ sreq' = [sreq EXCEPT ![r] =
                  [NewSubReq("register", topic, <<token>>, clock + 1) EXCEPT
                     !.pc = "regSaveDevice", !.platform = platform, !.id = id,
                     !.device = FindDevice(devices, token)]]
    /\ UNCHANGED <<poolVars, acctVars, devices, history, dreq, calls, topics, subs,
                   pairUnique>>

TokenNeverTaken(devs, token) == FALSE

\* Device.token is unique: a create with a token some row holds is rejected
TokenTaken(devs, token) == \E i \in 1..Len(devs) : devs[i].token = token

\* existingDevice.update(...) or Device.create(...)
RegisterSaveDevice(r) ==
    LET req == sreq[r]
        token == req.tokens[1]
        stored == IF req.platform = "none" THEN "unknown" ELSE req.platform
        newId == IF req.id # None THEN req.id ELSE GenerateDeviceId(token, stored)
    IN
    /\ req.pc = "regSaveDevice"
    /\ IF req.device # 0
       THEN /\ devices' = [devices EXCEPT
                             ![req.device].isActive = TRUE,
                             ![req.device].lastSeen = clock,
                             ![req.device].platform =
                                 IF req.platform = "none" THEN @ ELSE req.platform]
            /\ sreq' = [sreq EXCEPT ![r].pc = "regFindTopic"]
       ELSE IF TokenTaken(devices, token) \/ IdTaken(devices, newId)
            THEN /\ SubDone(r, "error")
                 /\ UNCHANGED devices
            ELSE /\ devices' = Append(devices, [id |-> newId, token |-> token,
                                                isActive |-> TRUE, platform |-> stored,
                                                lastSeen |-> clock])
                 /\ sreq' = [sreq EXCEPT ![r].pc = "regFindTopic", ![r].isNew = TRUE,
                                         ![r].device = Len(devices) + 1]
    /\ UNCHANGED <<poolVars, acctVars, history, dreq, calls, topics, subs, clock,
                   pairUnique>>

\* getOrCreateTopic: Topic.findOne({ where: { name } })
RegisterFindTopic(r) ==
    /\ sreq[r].pc = "regFindTopic"
    /\ sreq' = [sreq EXCEPT ![r].pc = IF topics[sreq[r].topic].exists
                                      THEN "regFindSub" ELSE "regCreateTopic"]
    /\ UNCHANGED <<poolVars, acctVars, dispVars, topics, subs, clock, pairUnique>>

\* getOrCreateTopic: Topic.create, rejected when the name has been taken
RegisterCreateTopic(r) ==
    /\ sreq[r].pc = "regCreateTopic"
    /\ IF topics[sreq[r].topic].exists
       THEN /\ SubDone(r, "subscriptionFailed")
            /\ UNCHANGED topics
       ELSE /\ topics' = [topics EXCEPT ![sreq[r].topic] =
                                          [exists |-> TRUE, isActive |-> TRUE]]
            /\ sreq' = [sreq EXCEPT ![r].pc = "regFindSub"]
    /\ UNCHANGED <<poolVars, acctVars, dispVars, subs, clock, pairUnique>>

\* TopicSubscription.findOne for the pair; an active row ends the request
RegisterFindSub(r) ==
    LET req == sreq[r]
        found == FindSub(subs, req.topic, devices[req.device].id)
    IN
    /\ req.pc = "regFindSub"
    /\ IF found # 0 /\ subs[found].isActive
       THEN SubDone(r, "ok")
       ELSE sreq' = [sreq EXCEPT ![r].pc = "regSaveSub", ![r].sub = found]
    /\ UNCHANGED <<poolVars, acctVars, dispVars, topics, subs, clock, pairUnique>>

\* TopicSubscription.create for a new pair, existingSubscription.update for
\* an inactive row
RegisterSaveSub(r) ==
    LET req == sreq[r] IN
    /\ req.pc = "regSaveSub"
    /\ IF req.sub = 0
       THEN LET res == CreateSub(subs, pairUnique, req.topic,
                                 devices[req.device].id, clock) IN
            /\ subs' = res.rows
            /\ SubDone(r, IF res.ok THEN "ok" ELSE "subscriptionFailed")
       ELSE /\ subs' = [subs EXCEPT ![req.sub].isActive = TRUE,
                                    ![req.sub].subscribedAt = clock,
                                    ![req.sub].unsubscribedAt = None]
            /\ SubDone(r, "ok")
    /\ UNCHANGED <<poolVars, acctVars, dispVars, topics, clock, pairUnique>>

\* the comma-separated tokens field of a subscribe / unsubscribe form
TokenLists == {<<>>, <<1>>, <<1, NTokens>>}

\* POST /topics/subscribe and /topics/unsubscribe up to Topic.findOne
MirrorStart(r, kind, tokens, topic) ==
    /\ sreq[r].pc = "idle"
    /\ clock' = clock + 1
    /\ sreq' = [sreq EXCEPT ![r] =
                  LET req == NewSubReq(kind, topic, tokens, clock + 1) IN
                  IF tokens = <<>> \/ ~(topics[topic].exists /\ topics[topic].isActive)
                  THEN [req EXCEPT !.pc = "done", !.outcome = "rejected"]
                  ELSE [req EXCEPT !.pc = "resolve"]]
    /\ UNCHANGED <<poolVars, acctVars, devices, history, dreq, calls, topics, subs,
                   pairUnique>>

SubscribeStart(r, tokens, topic) == MirrorStart(r, "subscribe", tokens, topic)

UnsubscribeStart(r, tokens, topic) == MirrorStart(r, "unsubscribe", tokens, topic)

MirrorResolveWritingFirst(r, findPc) ==
    LET req == sreq[r]
        written == IF req.kind = "subscribe"
                   THEN CreateSub(subs, FALSE, req.topic, devices[1].id, clock).rows
                   ELSE [i \in 1..Len(subs) |-> [subs[i] EXCEPT !.isActive = FALSE]]
    IN
    /\ req.pc = "resolve"
    /\ \E got \in GetAdminNow(accounts, firebaseAdmins, constructed, None) :
          /\ firebaseAdmins' = got.pool
          /\ constructed' = got.cnt
          /\ IF got.outcome # "client"
             THEN /\ SubDone(r, "noProvider")
                  /\ UNCHANGED <<calls, subs>>
             ELSE \E o \in {"ok", "throw", "rejected"} :
                     LET res == ProviderResult(req.tokens, o) IN
                     /\ calls' = Append(calls, Call(got.client, req.kind, req.tokens, res))
                     /\ IF res.threw
                        THEN SubDone(r, "error") /\ subs' = written
                        ELSE sreq' = [sreq EXCEPT ![r].pc = findPc] /\ UNCHANGED subs
    /\ UNCHANGED <<accounts, callers, acctVars, devices, history, dreq, topics,
                   clock, pairUnique>>

\* getFirebaseAdmin() and messaging().subscribeToTopic / unsubscribeFromTopic
MirrorResolve(r, findPc) ==
    LET req == sreq[r] IN
    /\ req.pc = "resolve"
    /\ \E got \in GetAdminNow(accounts, firebaseAdmins, constructed, None) :
          /\ firebaseAdmins' = got.pool
          /\ constructed' = got.cnt
          /\ IF got.outcome # "client"
             THEN /\ SubDone(r, "noProvider")
                  /\ UNCHANGED calls
             ELSE \E o \in {"ok", "throw", "rejected"} :
                     LET res == ProviderResult(req.tokens, o) IN
                     /\ calls' = Append(calls, Call(got.client, req.kind, req.tokens, res))
                     /\ IF res.threw
                        THEN SubDone(r, "error")
                        ELSE sreq' = [sreq EXCEPT ![r].pc = findPc]
    /\ UNCHANGED <<accounts, callers, acctVars, devices, history, dreq, topics, subs,
                   clock, pairUnique>>

SubscribeResolve(r) ==
    /\ sreq[r].pc = "resolve"
    /\ sreq[r].kind = "subscribe"
    /\ MirrorResolve(r, "subFindDevice")

UnsubscribeResolve(r) ==
    /\ sreq[r].pc = "resolve"
    /\ sreq[r].kind = "unsubscribe"
    /\ MirrorResolve(r, "unsubFindDevice")

\* the loop of /topics/subscribe: Device.findOne({ where: { token } })
SubscribeFindDevice(r) ==
    LET req == sreq[r]
        found == FindDevice(devices, req.tokens[req.i])
    IN
    /\ req.pc = "subFindDevice"
    /\ sreq' = [sreq EXCEPT ![r] =
                  IF found = 0
                  THEN NextToken([req EXCEPT !.failed = @ \cup {req.tokens[req.i]}],
                                 "subFindDevice")
                  ELSE [req EXCEPT !.pc = "subCreate", !.device = found]]
    /\ UNCHANGED <<poolVars, acctVars, dispVars, topics, subs, clock, pairUnique>>

\* the loop of /topics/subscribe: TopicSubscription.create inside try / catch
SubscribeCreate(r) ==
    LET req == sreq[r]
        res == CreateSub(subs, pairUnique, req.topic, devices[req.device].id, clock)
    IN
    /\ req.pc = "subCreate"
    /\ subs' = res.rows
    /\ sreq' = [sreq EXCEPT ![r] =
                  NextToken(IF res.ok THEN req
                            ELSE [req EXCEPT !.failed = @ \cup {req.tokens[req.i]}],
                            "subFindDevice")]
    /\ UNCHANGED <<poolVars, acctVars, dispVars, topics, clock, pairUnique>>

\* the loop of /topics/unsubscribe: Device.findOne({ where: { token } })
UnsubscribeFindDevice(r) ==
    LET req == sreq[r]
        found == FindDevice(devices, req.tokens[req.i])
    IN
    /\ req.pc = "unsubFindDevice"
    /\ sreq' = [sreq EXCEPT ![r] =
                  IF found = 0 THEN NextToken(req, "unsubFindDevice")
                  ELSE [req EXCEPT !.pc = "unsubFindSub", !.device = found]]
    /\ UNCHANGED <<poolVars, acctVars, dispVars, topics, subs, clock, pairUnique>>

UnsubscribeFindSubAddingRow(r) ==
    LET req == sreq[r]
        found == FindActiveSub(subs, req.topic, devices[req.device].id)
    IN
    /\ req.pc = "unsubFindSub"
    /\ sreq' = [sreq EXCEPT ![r] =
                  IF found = 0 THEN NextToken(req, "unsubFindDevice")
                  ELSE [req EXCEPT !.pc = "unsubUpdate", !.sub = found]]
    /\ subs' = IF found # 0 THEN subs
               ELSE Append(subs, [topic |-> req.topic, device |-> devices[req.device].id,
                                  isActive |-> FALSE, subscribedAt |-> clock,
                                  unsubscribedAt |-> clock])
    /\ UNCHANGED <<poolVars, acctVars, dispVars, topics, clock, pairUnique>>

\* the loop of /topics/unsubscribe: TopicSubscription.findOne of an active row
UnsubscribeFindSub(r) ==
    LET req == sreq[r]
        found == FindActiveSub(subs, req.topic, devices[req.device].id)
    IN
    /\ req.pc = "unsubFindSub"
    /\ sreq' = [sreq EXCEPT ![r] =
                  IF found = 0 THEN NextToken(req, "unsubFindDevice")
                  ELSE [req EXCEPT !.pc = "unsubUpdate", !.sub = found]]
    /\ UNCHANGED <<poolVars, acctVars, dispVars, topics, subs, clock, pairUnique>>

\* the loop of /topics/unsubscribe: subscription.update
UnsubscribeUpdate(r) ==
    LET req == sreq[r] IN
    /\ req.pc = "unsubUpdate"
    /\ subs' = [subs EXCEPT ![req.sub].isActive = FALSE,
                            ![req.sub].unsubscribedAt = clock]
    /\ sreq' = [sreq EXCEPT ![r] = NextToken(req, "unsubFindDevice")]
    /\ UNCHANGED <<poolVars, acctVars, dispVars, topics, clock, pairUnique>>

NextSubs ==
    \E r \in ReqIds :
        \/ \E token \in Tokens, platform \in PlatformChoices, topic \in TopicNames :
              RegisterStart(r, token, platform, None, topic)
        \/ RegisterSaveDevice(r)
        \/ RegisterFindTopic(r)
        \/ RegisterCreateTopic(r)
        \/ RegisterFindSub(r)
        \/ RegisterSaveSub(r)
        \/ \E tokens \in TokenLists, topic \in TopicNames : SubscribeStart(r, tokens, topic)
        \/ SubscribeResolve(r)
        \/ SubscribeFindDevice(r)
        \/ SubscribeCreate(r)
        \/ \E tokens \in TokenLists, topic \in TopicNames : UnsubscribeStart(r, tokens, topic)
        \/ UnsubscribeResolve(r)
        \/ UnsubscribeFindDevice(r)
        \/ UnsubscribeFindSub(r)
        \/ UnsubscribeUpdate(r)

\* the devices of the first n tokens as /api/devices/register stores them
RegisteredTable(n) ==
    [i \in 1..n |-> [id |-> GenerateDeviceId(i, "ios"), token |-> i,
                     isActive |-> TRUE, platform |-> "ios", lastSeen |-> 1]]

\* the rows registrations and unsubscriptions have left for topic 'all'
MirrorRows(n, st) ==
    LET tagged == [i \in 1..n |->
                     [keep |-> st[i] # "none",
                      row |-> [topic |-> "all", device |-> GenerateDeviceId(i, "ios"),
                               isActive |-> st[i] = "active", subscribedAt |-> 1,
                               unsubscribedAt |-> IF st[i] = "inactive" THEN 1 ELSE None]]]
        kept == SelectSeq(tagged, LAMBDA x : x.keep)
    IN [i \in 1..Len(kept) |-> kept[i].row]

\* two requests against a store that earlier requests have filled
InitSubs ==
    /\ accounts = [a \in AccountIds |-> NoAccount]
    /\ firebaseAdmins \in PoolStates(accounts)
    /\ IdleCallers
    /\ IdleAccountRoutes
    /\ history = <<>>
    /\ dreq = [pc |-> "idle"]
    /\ calls = <<>>
    /\ topics \in TopicStates
    /\ sreq = [r \in ReqIds |-> [pc |-> "idle"]]
    /\ clock = 1
    /\ pairUnique \in BOOLEAN
    /\ \E n \in 0..NTokens, st \in [Tokens -> {"none", "active", "inactive"}] :
          /\ \A i \in Tokens : i > n => st[i] = "none"
          /\ \A i \in Tokens : (i > 1 /\ st[i] # "none") => st[i - 1] = "active"
          /\ devices = RegisteredTable(n)
          /\ subs = MirrorRows(n, st)

SpecSubs == InitSubs /\ [][NextSubs]_vars

\* C10: every (topic, device) pair has at most one subscription row, and a
\* subscribe call for a pair that already has a row leaves that one row
\* active with subscribedAt refreshed instead of inserting a second row.
C10_OneRowPerPair ==
    /\ \A i, j \in 1..Len(subs) :
          (subs[i].topic = subs[j].topic /\ subs[i].device = subs[j].device) => i = j
    /\ \A r \in ReqIds :
          (/\ sreq[r].pc = "done" /\ sreq[r].kind = "subscribe" /\ sreq[r].outcome = "ok"
           /\ \A q \in ReqIds \ {r} : sreq[q].pc = "idle")
          => \A k \in 1..Len(sreq[r].tokens) :
                LET d == FindDevice(devices, sreq[r].tokens[k]) IN
                d # 0 =>
                   \E i \in PairRows(subs, sreq[r].topic, devices[d].id) :
                      /\ subs[i].isActive
                      /\ subs[i].subscribedAt >= sreq[r].startedAt

\* request r ran with no other request in flight, after all the others
Sequential(r) ==
    /\ sreq[r].pc = "done"
    /\ sreq[r].quiet
    /\ \A q \in ReqIds \ {r} :
          \/ sreq[q].pc = "idle"
          \/ sreq[q].pc = "done" /\ sreq[q].startedAt < sreq[r].startedAt

\* C11: subscribe for a topic name that has no Topic row creates the Topic
\* row and an active subscription row for every token with a local Device.
C11_SubscribeCreatesTopic ==
    \A r \in ReqIds :
        (/\ Sequential(r)
         /\ sreq[r].kind = "subscribe"
         /\ sreq[r].tokens # <<>>
         /\ ~sreq[r].hadTopic
         /\ Fallback(firebaseAdmins) # NoClient
         /\ \A j \in 1..Len(calls) : ~calls[j].threw)
        => /\ topics[sreq[r].topic].exists
           /\ \A k \in 1..Len(sreq[r].tokens) :
                 LET d == FindDevice(devices, sreq[r].tokens[k]) IN
                 d # 0 => \E i \in PairRows(subs, sreq[r].topic, devices[d].id) :
                             subs[i].isActive

NoRowForCurrentToken(r) ==
    /\ sreq[r].i <= Len(sreq[r].tokens)
    /\ LET d == FindDevice(devices, sreq[r].tokens[sreq[r].i]) IN
       d = 0 \/ PairRows(subs, sreq[r].topic, devices[d].id) = {}

\* C13: the steps unsubscribe takes for a token that has no Device, or whose
\* device has no subscription row for the topic, leave the subscription rows
\* exactly as they were and do not end the request with an error.
C13_UnsubscribeWithoutRowIsNoOp ==
    [][\A r \in ReqIds :
          (/\ sreq[r].pc \in {"unsubFindDevice", "unsubFindSub", "unsubUpdate"}
           /\ sreq'[r] # sreq[r]
           /\ NoRowForCurrentToken(r))
          => /\ subs' = subs
             /\ sreq'[r].outcome \in {"pending", "ok"}]_vars

\* an unsubscribe went through a token with a rowless device and a token
\* with no device, and answered
C13_Witness ==
    \E r \in ReqIds :
        /\ sreq[r].pc = "done" /\ sreq[r].kind = "unsubscribe" /\ sreq[r].outcome = "ok"
        /\ Len(sreq[r].tokens) = 2
        /\ FindDevice(devices, sreq[r].tokens[1]) # 0
        /\ FindDevice(devices, sreq[r].tokens[2]) = 0
        /\ PairRows(subs, sreq[r].topic,
                    devices[FindDevice(devices, sreq[r].tokens[1])].id) = {}
        /\ \A q \in ReqIds \ {r} : sreq[q].pc = "idle"

----------------------------------------------------------------------------
(* Device registration through both endpoints: routes/api/devices.js and *)
(* routes/devices.js                                                      *)

\* token.substring(0, 16), the id /devices/register gives a device that
\* brings none (tokens here differ within their first 16 characters)
TokenPrefix(token) == 10 * token + 3

\* POST /devices/register up to Device.findOne
PanelRegisterStart(r, token, platform, id) ==
    /\ sreq[r].pc = "idle"
    /\ clock' = clock + 1
    /\ sreq' = [sreq EXCEPT ![r] =
                  [NewSubReq("panelRegister", "all", <<token>>, clock + 1) EXCEPT
                     !.pc = "panelSaveDevice", !.platform = platform, !.id = id,
                     !.device = FindDevice(devices, token)]]
    /\ UNCHANGED <<poolVars, acctVars, devices, history, dreq, calls, topics, subs,
                   pairUnique>>

\* POST /devices/register: existingDevice.update(...) or Device.create(...)
PanelRegisterSaveDevice(r) ==
    LET req == sreq[r]
        token == req.tokens[1]
        newId == IF req.id # None THEN req.id ELSE TokenPrefix(token)
    IN
    /\ req.pc = "panelSaveDevice"
    /\ IF req.device # 0
       THEN /\ devices' = [devices EXCEPT
                             ![req.device].isActive = TRUE,
                             ![req.device].lastSeen = clock,
                             ![req.device].platform =
                                 IF req.platform = "none" THEN @ ELSE req.platform]
            /\ SubDone(r, "ok")
       ELSE IF TokenTaken(devices, token) \/ IdTaken(devices, newId)
            THEN /\ SubDone(r, "error")
                 /\ UNCHANGED devices
            ELSE /\ devices' = Append(devices, [id |-> newId, token |-> token,
                                                isActive |-> TRUE,
                                                platform |-> req.platform,
                                                lastSeen |-> clock])
                 /\ sreq' = [sreq EXCEPT ![r].pc = "done", ![r].outcome = "ok",
                                         ![r].isNew = TRUE,
                                         ![r].device = Len(devices) + 1]
    /\ UNCHANGED <<poolVars, acctVars, history, dreq, calls, topics, subs, clock,
                   pairUnique>>

NextRegister ==
    \E r \in ReqIds :
        \/ \E token \in Tokens, form \in RegistrationForms, topic \in TopicNames :
              RegisterStart(r, token, form.platform, form.id, topic)
        \/ RegisterSaveDevice(r)
        \/ RegisterFindTopic(r)
        \/ RegisterCreateTopic(r)
        \/ RegisterFindSub(r)
        \/ RegisterSaveSub(r)
        \/ \E token \in Tokens, form \in RegistrationForms :
              PanelRegisterStart(r, token, form.platform, form.id)
        \/ PanelRegisterSaveDevice(r)

\* the devices of the first n tokens, those of `inactive` marked inactive
\* (POST /devices/:id/inactive)
RegisteredTableWith(n, inactive) ==
    [i \in 1..n |-> [RegisteredTable(n)[i] EXCEPT !.isActive = i \notin inactive]]

\* registrations against a store that earlier requests have filled
InitRegister ==
    /\ accounts = [a \in AccountIds |-> NoAccount]
    /\ firebaseAdmins = <<>>
    /\ IdleCallers
    /\ IdleAccountRoutes
    /\ history = <<>>
    /\ dreq = [pc |-> "idle"]
    /\ calls = <<>>
    /\ topics \in TopicStates
    /\ sreq = [r \in ReqIds |-> [pc |-> "idle"]]
    /\ clock = 1
    /\ pairUnique \in BOOLEAN
    /\ \E n \in 0..NTokens, inactive \in {{}, {1}},
          st \in [Tokens -> {"none", "active", "inactive"}] :
          /\ inactive \subseteq 1..n
          /\ \A i \in Tokens : i > n => st[i] = "none"
          /\ \A i \in Tokens : (i > 1 /\ st[i] # "none") => st[i - 1] = "active"
          /\ devices = RegisteredTableWith(n, inactive)
          /\ subs = MirrorRows(n, st)

SpecRegister == InitRegister /\ [][NextRegister]_vars

\* what a registration stores as the platform of a new device
StoredPlatform(req) ==
    IF req.kind = "register" /\ req.platform = "none" THEN "unknown" ELSE req.platform

\* request r is about to write the device it looked up, and registers the
\* (token, platform) that row was registered with
ReRegisters(r) ==
    /\ sreq[r].pc \in {"regSaveDevice", "panelSaveDevice"}
    /\ sreq'[r] # sreq[r]
    /\ sreq[r].device # 0
    /\ devices[sreq[r].device].platform = StoredPlatform(sreq[r])

----------------------------------------------------------------------------
(* Eviction of a deactivated or deleted account *)

\* every started handler step and every app.delete() promise is eventually
\* served
SpecAccountsFair == SpecAccounts /\ WF_vars(NextAccounts)

\* a request that deactivated or deleted account a has been answered and the
\* account is still deleted or inactive
Evicted(a) ==
    /\ ~(accounts[a].exists /\ accounts[a].isActive)
    /\ \E r \in ReqIds :
          /\ areq[r].pc = "done" /\ areq[r].outcome = "ok" /\ areq[r].id = a
          /\ \/ areq[r].kind = "delete"
             \/ areq[r].kind = "edit" /\ ~areq[r].isActive

\* C15: once an account has been deactivated or deleted for good, the pool
\* eventually holds no client under its id and never holds one again, also
\* when app.delete() fails.
C15_EvictedClientLeavesPool ==
    \A a \in AccountIds :
        <>[]Evicted(a) => <>[](~MapHas(firebaseAdmins, a))

----------------------------------------------------------------------------
(* Failures inside initializeFirebaseAccount *)

\* the account whose client call c had to initialize
InitTarget(c) ==
    IF callers[c].fn = "init" THEN callers[c].arg ELSE FindDefaultActive(accounts)

\* C16: when initializing a client ends with an error for the caller, the
\* pool holds no entry for that account afterwards.
C16_FailedInitLeavesNoEntry ==
    \A c \in CallerIds :
        (/\ callers[c].pc = "done" /\ callers[c].outcome = "error"
         /\ \A o \in CallerIds \ {c} : callers[o].pc = "idle")
        => ~MapHas(firebaseAdmins, InitTarget(c))

\* C17: a call that constructed the client of an account succeeds and
\* returns that client, whether or not the lastUsed write that follows
\* succeeds.
C17_LastUsedFailureIsHarmless ==
    \A c \in CallerIds :
        (callers[c].pc = "done" /\ callers[c].acct # None)
        => /\ callers[c].outcome = "client"
           /\ callers[c].result.name = callers[c].acct

----------------------------------------------------------------------------
(* getFirebaseAdmin() without an account id *)

\* the pool's first client was there when the process had started
FirstIsFromBoot(m) == Len(m) > 0 /\ m[1].client.inst = 0

\* C18: getFirebaseAdmin() returns the client of the store's active default
\* account (initialized if absent); without one, the 'default' client of the
\* environment; without that, the first client of the pool; and null only
\* when there is none of the three.
C18_ResolveWithoutIdPrecedence ==
    \A c \in CallerIds :
        (callers[c].pc = "done" /\ callers[c].fn = "get" /\ callers[c].arg = None)
        => LET d == FindDefaultActive(accounts)
               env == MapHas(firebaseAdmins, EnvKey)
           IN
           /\ d # None =>
                 /\ callers[c].outcome \in {"client", "error"}
                 /\ callers[c].outcome = "client" =>
                       /\ callers[c].result.name = d
                       /\ callers[c].result = MapGet(firebaseAdmins, d)
           /\ (d = None /\ env) =>
                 /\ callers[c].outcome = "client"
                 /\ callers[c].result = MapGet(firebaseAdmins, EnvKey)
           /\ (d = None /\ ~env /\ callers[c].outcome = "client") =>
                 callers[c].result = firebaseAdmins[1].client
           /\ (d = None /\ ~env /\ FirstIsFromBoot(firebaseAdmins)) =>
                 callers[c].outcome = "client"
           /\ callers[c].outcome = "null" =>
                 d = None /\ ~env /\ ~FirstIsFromBoot(firebaseAdmins)
           /\ callers[c].outcome = "error" => d # None

\* with no default account and no environment client, a call got the first
\* of two clients of the pool
C18_Witness ==
    \E c \in CallerIds :
        /\ callers[c].pc = "done" /\ callers[c].fn = "get" /\ callers[c].arg = None
        /\ FindDefaultActive(accounts) = None
        /\ ~MapHas(firebaseAdmins, EnvKey)
        /\ Len(firebaseAdmins) >= 2
        /\ callers[c].outcome = "client"
        /\ callers[c].result = firebaseAdmins[1].client

----------------------------------------------------------------------------
(* Dispatch without an account id *)

\* getFirebaseAdmin() would return a client: the store has an active default
\* account, or the pool holds the environment client or any other
ResolvesWithoutId ==
    FindDefaultActive(accounts) # None \/ Fallback(firebaseAdmins) # NoClient

\* C19: a dispatch request without an account id is refused for lack of a
\* provider only when getFirebaseAdmin() would yield no client.
C19_RefusedOnlyWithoutProvider ==
    (/\ Finished
     /\ dreq.route \in {"notify", "topicSend"}
     /\ dreq.accountId = None
     /\ ResolvesWithoutId)
    => dreq.outcome \notin {"noAccount", "noProvider"}

----------------------------------------------------------------------------
(* POST /accounts/test-credentials: the throwaway app *)

\* the form lacks one of projectId, clientEmail, privateKey: answered with 400
\* before anything is constructed
TestRejected(t) ==
    /\ treq[t].pc = "idle"
    /\ treq' = [treq EXCEPT ![t] = [pc |-> "done", status |-> 400, success |-> FALSE]]
    /\ UNCHANGED testApps

\* what admin.initializeApp(..., testAppName) and testApp.messaging() can do
ProbeOutcomes == {"constructThrows", "probeThrows", "probed"}

\* the synchronous stretch of the inner try: the app is constructed under a
\* name of its own and probed with testApp.messaging(); a throw goes to the
\* catch, which answers success: false and deletes nothing; otherwise the
\* handler awaits testApp.delete()
TestCredentials(t, o) ==
    /\ treq[t].pc = "idle"
    /\ \/ /\ o = "constructThrows"
          /\ treq' = [treq EXCEPT ![t] = [pc |-> "done", status |-> 200, success |-> FALSE]]
          /\ UNCHANGED testApps
       \/ /\ o = "probeThrows"
          /\ treq' = [treq EXCEPT ![t] = [pc |-> "done", status |-> 200, success |-> FALSE]]
          /\ testApps' = testApps \cup {t}
       \/ /\ o = "probed"
          /\ treq' = [treq EXCEPT ![t] = [pc |-> "deleting", success |-> TRUE]]
          /\ testApps' = testApps \cup {t}

\* await testApp.delete() settles: resolved, the app is gone and the answer
\* keeps success: true; rejected, the catch answers success: false and the
\* app has or has not been released
TestDeleteSettles(t) ==
    /\ treq[t].pc = "deleting"
    /\ \E ok \in BOOLEAN, released \in BOOLEAN :
          /\ ok => released
          /\ treq' = [treq EXCEPT ![t] = [pc |-> "done", status |-> 200, success |-> ok]]
          /\ testApps' = IF released THEN testApps \ {t} ELSE testApps

NextTestCredentials ==
    /\ \/ \E t \in TestIds : TestRejected(t)
       \/ \E t \in TestIds, o \in ProbeOutcomes : TestCredentials(t, o)
       \/ \E t \in TestIds : TestDeleteSettles(t)
    /\ UNCHANGED <<poolVars, removals, areq, intake, codec, creds, dispVars, subsVars>>

SpecTestCredentials == InitAccounts /\ [][NextTestCredentials]_vars

\* C20: once test-credentials has answered, the throwaway app the request
\* constructed is no longer live, whatever failed after the construction.
C20_TestAppTornDown ==
    \A t \in TestIds : treq[t].pc = "done" => t \notin testApps

----------------------------------------------------------------------------
(* Reconciliation after the provider's subscribe call *)

\* the subscribe request r was not turned away before the provider call and
\* its provider call returned (it did not throw)
ProviderReturned(r) ==
    /\ sreq[r].kind = "subscribe"
    /\ sreq[r].outcome \notin {"rejected", "noProvider", "error"}

\* C21: once the provider's subscribe call has returned, the call succeeds,
\* every given token with a local Device has an active row for the topic, and
\* every token without a local Device is counted as failed and has no row.
C21_SubscribeReconciles ==
    \A r \in ReqIds :
        (Sequential(r) /\ ProviderReturned(r))
        => /\ sreq[r].outcome = "ok"
           /\ \A k \in 1..Len(sreq[r].tokens) :
                 LET d == FindDevice(devices, sreq[r].tokens[k]) IN
                 /\ d # 0 => \E i \in PairRows(subs, sreq[r].topic, devices[d].id) :
                                subs[i].isActive
                 /\ d = 0 => sreq[r].tokens[k] \in sreq[r].failed

----------------------------------------------------------------------------
(* The history entry of a broadcast *)

LastRow == history[Len(history)]

\* C22: a broadcast in which some token failed is not recorded with the
\* status of a broadcast in which every token succeeded.
C22_PartialFailureStatus ==
    (Finished /\ IsBroadcast /\ dreq.outcome = "sent" /\ dreq.failureCount > 0)
    => (Len(history) > 0 /\ LastRow.status # "Success")

\* a broadcast was answered while no device was active
EmptyBroadcast ==
    Finished /\ IsBroadcast /\ ActiveTokens(dreq.devicesBefore) = <<>>

\* C23: a broadcast issued while no device is active makes no provider call
\* and ends as a failed request with one Failed history entry.
C23_EmptyBroadcastFails ==
    EmptyBroadcast
    => /\ calls = <<>>
       /\ dreq.outcome = "error"
       /\ Len(history) = 1
       /\ history[1].status = "Failed"

C23_Witness ==
    /\ EmptyBroadcast
    /\ Len(dreq.devicesBefore) > 0
    /\ dreq.client # NoClient

----------------------------------------------------------------------------
(* A provider call that never returns *)

\* await firebaseAdmin.messaging().send(...) / sendEachForMulticast(...) on a
\* promise that never settles: the route sets no timeout around the await, so
\* the handler stays suspended at it
ProviderNeverReturns ==
    /\ dreq.pc \in {"send", "batch"}
    /\ dreq' = [dreq EXCEPT !.pc = "awaiting"]
    /\ UNCHANGED <<poolVars, acctVars, devices, history, calls, subsVars>>

NextDispatchAwaiting == NextDispatch \/ ProviderNeverReturns

\* every handler step that can run does run
SpecDispatchFair ==
    InitDispatch /\ [][NextDispatchAwaiting]_vars /\ WF_vars(NextDispatchAwaiting)

\* C24: every dispatch request that was started eventually completes, also
\* when one of its provider calls never returns.
C24_DispatchCompletes ==
    (dreq.pc # "idle") ~> Finished

----------------------------------------------------------------------------
(* What subscribe and unsubscribe report when the client cannot be resolved *)

\* subscribe and unsubscribe requests alone
NextMirror ==
    \E r \in ReqIds :
        \/ \E tokens \in TokenLists, topic \in TopicNames : SubscribeStart(r, tokens, topic)
        \/ SubscribeResolve(r)
        \/ SubscribeFindDevice(r)
        \/ SubscribeCreate(r)
        \/ \E tokens \in TokenLists, topic \in TopicNames : UnsubscribeStart(r, tokens, topic)
        \/ UnsubscribeResolve(r)
        \/ UnsubscribeFindDevice(r)
        \/ UnsubscribeFindSub(r)
        \/ UnsubscribeUpdate(r)

\* two requests against a store of at most one account, every pool, one
\* registered device
InitMirror ==
    /\ accounts \in {acc \in StoreStates : \A a \in AccountIds \ {1} : ~acc[a].exists}
    /\ firebaseAdmins \in PoolStates(accounts)
    /\ IdleCallers
    /\ IdleAccountRoutes
    /\ history = <<>>
    /\ dreq = [pc |-> "idle"]
    /\ calls = <<>>
    /\ topics \in TopicStates
    /\ sreq = [r \in ReqIds |-> [pc |-> "idle"]]
    /\ clock = 1
    /\ pairUnique \in BOOLEAN
    /\ devices = RegisteredTable(1)
    /\ subs = <<>>

SpecMirror == InitMirror /\ [][NextMirror]_vars

\* request r is answered in this step without a provider call although the
\* store holds an active default account: getFirebaseAdmin() threw while
\* initializing it (the privateKey getter could not decrypt the stored secret,
\* or the construction failed)
ResolveThrewFor(r) ==
    /\ sreq[r].pc = "resolve"
    /\ sreq'[r].pc = "done"
    /\ calls' = calls
    /\ FindDefaultActive(accounts) # None

\* C25: a subscribe or unsubscribe request whose client could not be
\* initialized is not answered with the outcome given when no account is
\* configured.
C25_InitFailureDistinguishable ==
    [][\A r \in ReqIds : ResolveThrewFor(r) => sreq'[r].outcome # "noProvider"]_vars

----------------------------------------------------------------------------
(* Device ids as fingerprints *)

\* generateDeviceId(token, platform) of a stored row; a row without a
\* platform takes the parameter's default 'unknown'
FingerprintOf(row) ==
    GenerateDeviceId(row.token, IF row.platform = "none" THEN "unknown" ELSE row.platform)

\* C26: every Device row's id is the fingerprint of its current
\* (token, platform), whatever registrations have run.
C26_IdIsFingerprint ==
    \A i \in 1..Len(devices) : devices[i].id = FingerprintOf(devices[i])

----------------------------------------------------------------------------
(* POST /notifications: validation of the form and the message built of it *)

MaxTitle == 100
MaxBody == 1000

\* a text field: its length without surrounding whitespace, and whether it
\* came with surrounding whitespace
Texts(max) == [len : {0, 1, max, max + 1}, pad : BOOLEAN]

\* .trim()
Trim(t) == [t EXCEPT !.pad = FALSE]

\* the fields of the form that validation and the payload read
Forms ==
    [title : Texts(MaxTitle), body : Texts(MaxBody), silent : BOOLEAN,
     imageUrl : {"none", "url", "notUrl"}]

\* validateNotification: title and body are trimmed and must be non-empty and
\* within their length limits; imageUrl, when given, must be a URL
ValidationErrors(f) ==
    {e \in {"Title is required", "Title cannot exceed 100 characters",
            "Body is required", "Body cannot exceed 1000 characters",
            "Image URL must be a valid URL"} :
        \/ e = "Title is required" /\ Trim(f.title).len = 0
        \/ e = "Title cannot exceed 100 characters" /\ Trim(f.title).len > MaxTitle
        \/ e = "Body is required" /\ Trim(f.body).len = 0
        \/ e = "Body cannot exceed 1000 characters" /\ Trim(f.body).len > MaxBody
        \/ e = "Image URL must be a valid URL" /\ f.imageUrl = "notUrl"}

NoMessage == [built |-> FALSE]

\* the payload: notification { title, body } unless silent, data { title,
\* body, timestamp } always, aps.contentAvailable = Boolean(silent)
BuildMessage(f) ==
    [built |-> TRUE,
     notification |-> ~f.silent,
     data |-> [title |-> Trim(f.title), body |-> Trim(f.body)],
     contentAvailable |-> f.silent,
     image |-> f.imageUrl = "url"]

\* the handler up to the payload: validation errors are flashed and the
\* request is redirected, otherwise the message is built
NotifyIntake(f) ==
    /\ intake.pc = "idle"
    /\ intake' = [pc |-> "done", form |-> f, errors |-> ValidationErrors(f),
                  message |-> IF ValidationErrors(f) = {} THEN BuildMessage(f)
                              ELSE NoMessage]
    /\ UNCHANGED <<poolVars, removals, areq, testApps, treq, codec, creds, dispVars, subsVars>>

NextIntake == \E f \in Forms : NotifyIntake(f)

\* the process has started and no request is being served
InitIntake ==
    /\ accounts = [a \in AccountIds |-> NoAccount]
    /\ firebaseAdmins = <<>>
    /\ IdleCallers
    /\ IdleAccountRoutes
    /\ IdleDispatch
    /\ IdleSubscriptions

SpecIntake == InitIntake /\ [][NextIntake]_vars

\* C27: a dispatch request that carries neither title nor body is accepted
\* and its message has no notification part.
C27_EmptyTextIsDataOnly ==
    (/\ intake.pc = "done"
     /\ Trim(intake.form.title).len = 0
     /\ Trim(intake.form.body).len = 0
     /\ intake.form.imageUrl # "notUrl")
    => /\ intake.errors = {}
       /\ intake.message.built
       /\ ~intake.message.notification

----------------------------------------------------------------------------
(* models/FirebaseAccount.js: encrypt and decrypt (aes-256-cbc) *)

ByteBits == 2
BlockBytes == 2
NKeys == 3
MaxText == 2

ByteSpace == 2 ^ ByteBits
BlockSpace == ByteSpace ^ BlockBytes

ByteValues == 0..(ByteSpace - 1)
BlockValues == 0..(BlockSpace - 1)
CodecKeys == 0..(NKeys - 1)

\* the texts a secret can be: byte strings up to MaxText bytes
PlainTexts == UNION {[1..n -> ByteValues] : n \in 0..MaxText}

RECURSIVE Xor(_, _)
\* bitwise exclusive or
Xor(a, b) ==
    IF a = 0 THEN b
    ELSE IF b = 0 THEN a
    ELSE ((a + b) % 2) + 2 * Xor(a \div 2, b \div 2)

\* the cipher on one block: under each key a permutation of the block values
EncryptBlock(k, v) == ((2 * k + 1) * v + k) % BlockSpace

DecryptBlock(k, c) == CHOOSE v \in BlockValues : EncryptBlock(k, v) = c

\* the padding cipher.final() appends: n bytes of value n, 1 <= n <= BlockBytes
Pad(text) ==
    LET n == BlockBytes - (Len(text) % BlockBytes) IN text \o [i \in 1..n |-> n]

RECURSIVE BlockOf(_)
\* a block of bytes as one block value
BlockOf(bytes) ==
    IF bytes = <<>> THEN 0
    ELSE BlockOf(SubSeq(bytes, 1, Len(bytes) - 1)) * ByteSpace + bytes[Len(bytes)]

RECURSIVE BytesOf(_, _)
\* the n bytes of a block value
BytesOf(v, n) ==
    IF n = 0 THEN <<>> ELSE Append(BytesOf(v \div ByteSpace, n - 1), v % ByteSpace)

ToBlocks(bytes) ==
    [j \in 1..(Len(bytes) \div BlockBytes) |->
        BlockOf(SubSeq(bytes, (j - 1) * BlockBytes + 1, j * BlockBytes))]

RECURSIVE FromBlocks(_)
FromBlocks(blocks) ==
    IF blocks = <<>> THEN <<>>
    ELSE BytesOf(blocks[1], BlockBytes) \o FromBlocks(Tail(blocks))

RECURSIVE CbcEncrypt(_, _, _)
\* cipher block chaining: each block is combined with the block before it
CbcEncrypt(k, prev, blocks) ==
    IF blocks = <<>> THEN <<>>
    ELSE LET c == EncryptBlock(k, Xor(blocks[1], prev))
         IN  <<c>> \o CbcEncrypt(k, c, Tail(blocks))

RECURSIVE CbcDecrypt(_, _, _)
CbcDecrypt(k, prev, blocks) ==
    IF blocks = <<>> THEN <<>>
    ELSE <<Xor(DecryptBlock(k, blocks[1]), prev)>> \o CbcDecrypt(k, blocks[1], Tail(blocks))

\* the ':' between the two hex strings
Colon == BlockSpace

\* encrypt(text): `${iv.toString('hex')}:${encrypted.toString('hex')}`
Encrypt(k, iv, text) == <<iv, Colon>> \o CbcEncrypt(k, iv, ToBlocks(Pad(text)))

\* text.split(':')
SplitColon(stored) ==
    LET at == CHOOSE i \in 1..Len(stored) :
                 stored[i] = Colon /\ \A j \in 1..(i - 1) : stored[j] # Colon
    IN  <<SubSeq(stored, 1, at - 1), SubSeq(stored, at + 1, Len(stored))>>

\* decipher.final(): the last byte n must be a padding length and the last n
\* bytes must all be n ('bad decrypt' otherwise); the padding is removed
Unpad(bytes) ==
    LET n == bytes[Len(bytes)] IN
    IF /\ n \in 1..BlockBytes
       /\ \A i \in (Len(bytes) - n + 1)..Len(bytes) : bytes[i] = n
    THEN [ok |-> TRUE, text |-> SubSeq(bytes, 1, Len(bytes) - n)]
    ELSE [ok |-> FALSE, text |-> <<>>]

\* decrypt(text)
Decrypt(k, stored) ==
    LET parts == SplitColon(stored)
        iv == parts[1][1]
    IN  Unpad(FromBlocks(CbcDecrypt(k, iv, parts[2])))

\* the privateKey setter: the secret is stored encrypted under the process's
\* ENCRYPTION_KEY with a fresh iv
SetPrivateKey(k, iv, text) ==
    /\ codec.pc = "idle"
    /\ codec' = [pc |-> "stored", key |-> k, text |-> text, stored |-> Encrypt(k, iv, text)]
    /\ UNCHANGED <<poolVars, removals, areq, testApps, treq, intake, creds, dispVars, subsVars>>

\* the privateKey getter, in a process whose ENCRYPTION_KEY is k
GetPrivateKey(k) ==
    /\ codec.pc = "stored"
    /\ codec' = [codec EXCEPT !.pc = "read"] @@ [readKey |-> k, result |-> Decrypt(k, codec.stored)]
    /\ UNCHANGED <<poolVars, removals, areq, testApps, treq, intake, creds, dispVars, subsVars>>

NextCodec ==
    \/ \E k \in CodecKeys, iv \in BlockValues, text \in PlainTexts : SetPrivateKey(k, iv, text)
    \/ \E k \in CodecKeys : GetPrivateKey(k)

SpecCodec == InitIntake /\ [][NextCodec]_vars

\* C28: decrypting a stored secret under another key than the one it was
\* encrypted with ends in an error and yields no plaintext.
C28_WrongKeyFails ==
    (codec.pc = "read" /\ codec.readKey # codec.key) => ~codec.result.ok

----------------------------------------------------------------------------
(* Tokens of a multicast dispatch *)

Multicasts == {j \in 1..Len(calls) : calls[j].kind = "multicast"}

RECURSIVE SentCount(_)
\* how many tokens the first j calls sent to by multicast
SentCount(j) ==
    IF j = 0 THEN 0
    ELSE SentCount(j - 1) + (IF j \in Multicasts THEN Len(calls[j].tokens) ELSE 0)

SentTokens == UNION {Range(calls[j].tokens) : j \in Multicasts}

\* C30: within a multicast dispatch no token is sent to more than once, in a
\* broadcast as in a selected-devices request whose ids and custom tokens
\* overlap.
C30_NoTokenSentTwice ==
    SentCount(Len(calls)) = Cardinality(SentTokens)

C30_Witness ==
    /\ Finished
    /\ dreq.route = "sendDevices"
    /\ Len(dreq.collected) > Len(dreq.tokens)
    /\ Len(dreq.tokens) > 1
    /\ Multicasts # {}

----------------------------------------------------------------------------
(* A broadcast while accounts are deleted *)

\* POST /accounts/delete/:id and the removal it starts, beside a dispatch
DeleteRoute ==
    /\ \/ \E r \in ReqIds, a \in AccountIds : StartDelete(r, a)
       \/ \E r \in ReqIds : DeleteDestroy(r)
       \/ \E p \in removals : RemovalSettles(p)
    /\ UNCHANGED <<testApps, treq, intake, codec, creds, dispVars, subsVars>>

NextBroadcastPool == NextDispatch \/ DeleteRoute

\* one dispatch request with the default account ready and devices for three
\* batches
InitBroadcastPool ==
    /\ InitBroadcast
    /\ Len(devices) = 2 * BATCH_SIZE + 1
    /\ \A i \in 1..Len(devices) : devices[i].isActive
    /\ topics["news"].exists

SpecBroadcastPool == InitBroadcastPool /\ [][NextBroadcastPool]_vars

\* C29: the provider calls of a broadcast are its batches in index order, one
\* after the other, all through the client resolved when the request
\* started, whatever happens to the pool meanwhile.
C29_BatchesInOrderSameClient ==
    IsBroadcast
    => /\ \A j \in 1..Len(calls) :
             /\ calls[j].client = dreq.client
             /\ calls[j].tokens = Batch(dreq.tokens, (j - 1) * BATCH_SIZE)
       /\ dreq.pc = "batch" => dreq.i = Len(calls) * BATCH_SIZE

\* a batch has gone out, more are to come, and the pool has lost the client
C29_Witness ==
    /\ IsBroadcast
    /\ dreq.pc = "batch"
    /\ Len(calls) >= 1
    /\ ~MapHas(firebaseAdmins, dreq.account)

----------------------------------------------------------------------------
(* Two registrations creating the same topic *)

\* requests r and q registered different tokens for the same topic name,
\* which had no Topic row when either of them started, and each has stored
\* its device and been answered
CreatedSameTopic(r, q) ==
    /\ r # q
    /\ sreq[r].pc = "done" /\ sreq[q].pc = "done"
    /\ sreq[r].kind = "register" /\ sreq[q].kind = "register"
    /\ sreq[r].topic = sreq[q].topic
    /\ sreq[r].tokens # sreq[q].tokens
    /\ ~sreq[r].hadTopic /\ ~sreq[q].hadTopic
    /\ sreq[r].outcome # "error" /\ sreq[q].outcome # "error"

\* C31: when two calls create the same topic name concurrently, the topic has
\* its one row afterwards and neither caller's topic / subscription step
\* fails.
C31_TopicRaceBothContinue ==
    \A r, q \in ReqIds :
        CreatedSameTopic(r, q)
        => /\ topics[sreq[r].topic].exists
           /\ sreq[r].outcome = "ok"
           /\ sreq[q].outcome = "ok"

----------------------------------------------------------------------------
(* POST /devices/:id/test: the test send to one device *)

\* what messaging().send(message) does: it returns a message id, or throws a
\* provider error carrying errorInfo.code, or throws an error without errorInfo
SendOutcomes == {"ok", "unregistered", "invalidArgument", "network"}

SendCode(o) ==
    CASE o = "unregistered" -> "messaging/registration-token-not-registered"
      [] o = "invalidArgument" -> "messaging/invalid-argument"
      [] OTHER -> "none"

DeactivatesOnAnyCode(code) == code # "none"

\* fcmError.errorInfo.code === 'messaging/registration-token-not-registered'
Deactivates(code) == code = "messaging/registration-token-not-registered"

\* the handler up to the provider call: Device.findByPk, getFirebaseAdmin(),
\* and the check of the token's length
DeviceTestStart(d, short) ==
    /\ dreq.pc = "idle"
    /\ LET req == NewDispatch("deviceTest", None) @@ [device |-> d] IN
       IF d > Len(devices)
       THEN /\ dreq' = [req EXCEPT !.pc = "done", !.outcome = "notFound"]
            /\ UNCHANGED <<firebaseAdmins, constructed>>
       ELSE \E g \in GetAdminNow(accounts, firebaseAdmins, constructed, None) :
              /\ firebaseAdmins' = g.pool
              /\ constructed' = g.cnt
              /\ dreq' = IF g.outcome = "error"
                         THEN [req EXCEPT !.pc = "done", !.outcome = "error"]
                         ELSE IF g.outcome = "null"
                         THEN [req EXCEPT !.pc = "done", !.outcome = "noProvider"]
                         ELSE IF short
                         THEN [req EXCEPT !.pc = "done", !.outcome = "error",
                                          !.client = g.client]
                         ELSE [req EXCEPT !.pc = "send", !.client = g.client,
                                          !.mode = "device"]
    /\ UNCHANGED <<accounts, callers, acctVars, devices, history, calls, subsVars>>

\* await firebaseAdmin.messaging().send(message) settles
DeviceTestSend ==
    /\ dreq.pc = "send" /\ dreq.route = "deviceTest"
    /\ \E o \in SendOutcomes :
         /\ calls' = Append(calls,
               Call(dreq.client, "send", <<devices[dreq.device].token>>,
                    [threw |-> o # "ok", failed |-> {}, code |-> SendCode(o)]))
         /\ dreq' = [dreq EXCEPT
               !.pc = IF o = "ok" THEN "touch"
                      ELSE IF Deactivates(SendCode(o)) THEN "deactivate"
                      ELSE "done",
               !.outcome = IF o = "ok" THEN "pending" ELSE "error"]
    /\ UNCHANGED <<poolVars, acctVars, devices, history, subsVars>>

\* await device.update({ lastSeen: new Date() })
DeviceTestTouch ==
    /\ dreq.pc = "touch"
    /\ clock' = clock + 1
    /\ devices' = [devices EXCEPT ![dreq.device].lastSeen = clock + 1]
    /\ dreq' = [dreq EXCEPT !.pc = "done", !.outcome = "sent"]
    /\ UNCHANGED <<poolVars, acctVars, history, calls, topics, subs, sreq, pairUnique>>

\* await device.update({ isActive: false }), then the error is flashed
DeviceTestDeactivate ==
    /\ dreq.pc = "deactivate"
    /\ devices' = [devices EXCEPT ![dreq.device].isActive = FALSE]
    /\ dreq' = [dreq EXCEPT !.pc = "done"]
    /\ UNCHANGED <<poolVars, acctVars, history, calls, subsVars>>

NextDeviceTest ==
    \/ \E d \in 1..(NTokens + 1), short \in BOOLEAN : DeviceTestStart(d, short)
    \/ DeviceTestSend
    \/ DeviceTestTouch
    \/ DeviceTestDeactivate

\* one test request against every store and pool and a few registered devices
InitDeviceTest ==
    /\ accounts \in StoreStates
    /\ firebaseAdmins \in PoolStates(accounts)
    /\ IdleCallers
    /\ IdleAccountRoutes
    /\ history = <<>>
    /\ dreq = [pc |-> "idle"]
    /\ calls = <<>>
    /\ topics \in TopicStates
    /\ subs = <<>>
    /\ sreq = [r \in ReqIds |-> [pc |-> "idle"]]
    /\ clock = 1
    /\ pairUnique = FALSE
    /\ \E n \in 0..NTokens, inactive \in SUBSET Tokens :
          /\ inactive \subseteq 1..n
          /\ devices = RegisteredTableWith(n, inactive)

SpecDeviceTest == InitDeviceTest /\ [][NextDeviceTest]_vars

\* the test request has been answered after its provider call
TestSendAnswered ==
    /\ Finished
    /\ dreq.route = "deviceTest"
    /\ Len(calls) = 1

\* C32: a test send deactivates the device exactly when the provider rejects
\* it as no longer registered; any other provider error leaves the device
\* row as it was, and a success changes only lastSeen.
C32_TestSendRecovery ==
    TestSendAnswered
    => LET before == dreq.devicesBefore
           d == dreq.device
       IN
       /\ Len(devices) = Len(before)
       /\ \A i \in 1..Len(devices) : i # d => devices[i] = before[i]
       /\ IF calls[1].code = "messaging/registration-token-not-registered"
          THEN devices[d] = [before[d] EXCEPT !.isActive = FALSE]
          ELSE IF calls[1].threw
          THEN devices[d] = before[d]
          ELSE /\ devices[d].lastSeen > before[d].lastSeen
               /\ devices[d] = [before[d] EXCEPT !.lastSeen = devices[d].lastSeen]

C32_Witness ==
    /\ TestSendAnswered
    /\ calls[1].code = "messaging/registration-token-not-registered"
    /\ dreq.devicesBefore[dreq.device].isActive
    /\ ~devices[dreq.device].isActive

----------------------------------------------------------------------------
(* Resolve calls beside an eviction *)

NextEviction == NextPool \/ DeleteRoute

\* the store and the pool after the boot sequence: account 1 active, default
\* and pooled, every other account inactive and therefore not initialized; no
\* environment client
InitEviction ==
    /\ accounts = [a \in AccountIds |->
                      [exists |-> TRUE, isDefault |-> a = 1, isActive |-> a = 1]]
    /\ firebaseAdmins = PoolOf(FALSE, <<1>>)
    /\ IdleCallers
    /\ IdleAccountRoutes
    /\ IdleDispatch
    /\ IdleSubscriptions

SpecEviction == InitEviction /\ [][NextEviction]_vars

\* C33: no getFirebaseAdmin / initializeFirebaseAccount call returns a client
\* that removeFirebaseAccount is tearing down.
C33_NoReleasedClientReturned ==
    [][\A c \in CallerIds :
          (/\ callers[c].pc # "done"
           /\ callers'[c].pc = "done"
           /\ callers'[c].outcome = "client")
          => \A p \in removals : p.client # callers'[c].result]_vars

\* no resolve call, account request or removal is under way
PoolQuiet ==
    /\ \A c \in CallerIds : callers[c].pc \in {"idle", "done"}
    /\ \A r \in ReqIds : areq[r].pc \in {"idle", "done"}
    /\ removals = {}

\* C34: every pool entry other than the environment 'default' belongs to an
\* account that exists in the store and is active (read at the states where
\* nothing is under way).
C34_PoolEntriesAreActiveAccounts ==
    PoolQuiet =>
        \A i \in 1..Len(firebaseAdmins) :
            firebaseAdmins[i].key # EnvKey =>
                /\ accounts[firebaseAdmins[i].key].exists
                /\ accounts[firebaseAdmins[i].key].isActive

----------------------------------------------------------------------------
(* Editing the credentials of a pooled account *)

\* admin.initializeApp reads the credentials of the account object it is given:
\* a client built in this step holds the credentials the row holds now
BuiltNow(cr) ==
    [a \in AccountIds |->
        IF constructed'[a] # constructed[a] THEN cr.cur[a] ELSE cr.built[a]]

\* account.update(updateData) with projectId, clientEmail or privateKey other
\* than the row's
SaveCredentials(r, changed) ==
    LET a == areq[r].id IN
    [creds EXCEPT
       !.cur = IF changed THEN [@ EXCEPT ![a] = @ + 1] ELSE @,
       !.edited = IF /\ changed
                     /\ accounts[a].exists /\ accounts[a].isActive
                     /\ areq[r].isActive
                     /\ MapHas(firebaseAdmins, a)
                  THEN @ \cup {r} ELSE @]

EditSaveCredentials(r) ==
    /\ EditSave(r)
    /\ \E changed \in BOOLEAN : creds' = SaveCredentials(r, changed)

EditRefindCredentials(r) ==
    /\ EditRefind(r)
    /\ creds' = [creds EXCEPT !.built = BuiltNow(creds)]

NextCredentials ==
    /\ \/ \E r \in ReqIds, a \in AccountIds, d \in BOOLEAN, act \in BOOLEAN :
            StartEdit(r, a, d, act) /\ UNCHANGED creds
       \/ \E r \in ReqIds : EditClear(r) /\ UNCHANGED creds
       \/ \E r \in ReqIds : EditSaveCredentials(r)
       \/ \E r \in ReqIds : EditRefindCredentials(r)
       \/ \E r \in ReqIds : RouteInitReturns(r) /\ UNCHANGED creds
       \/ \E p \in removals : RemovalSettles(p) /\ UNCHANGED creds
    /\ UNCHANGED <<testApps, treq, intake, codec, dispVars, subsVars>>

SpecCredentials == InitEviction /\ [][NextCredentials]_vars

\* an edit that replaced the credentials of an active, pooled account has
\* answered success and no account request is under way
CredentialsEdited(r) ==
    /\ \A q \in ReqIds : areq[q].pc \in {"idle", "done"}
    /\ areq[r].pc = "done"
    /\ areq[r].outcome = "ok"
    /\ r \in creds.edited
    /\ accounts[areq[r].id].isActive
    /\ MapHas(firebaseAdmins, areq[r].id)

\* C35: after an active, pooled account is edited with changed credentials,
\* the client resolve calls return for it is built of the updated credentials.
C35_EditedCredentialsReachClient ==
    \A r \in ReqIds :
        CredentialsEdited(r) => creds.built[areq[r].id] = creds.cur[areq[r].id]

----------------------------------------------------------------------------
(* The target of POST /notifications *)

\* C36: a request with targetType 'device' or 'topic' never enters the loop
\* that multicasts to all active devices, also when its token or topic field
\* is empty.
C36_TargetedNeverBroadcasts ==
    [][\A t \in {"device", "topic"}, h \in BOOLEAN, a \in AccountIds \cup {None} :
          NotifyStart(t, h, a) => dreq'.pc # "batch"]_vars

----------------------------------------------------------------------------
(* Add-account requests that fail *)

\* the store before the requests: account 1 active and default, room for more
StoreBeforeAdd ==
    [a \in AccountIds |->
        IF a = 1 THEN [exists |-> TRUE, isDefault |-> TRUE, isActive |-> TRUE]
        ELSE NoAccount]

InitAdd ==
    /\ accounts = StoreBeforeAdd
    /\ firebaseAdmins \in PoolStates(accounts)
    /\ IdleCallers
    /\ IdleAccountRoutes
    /\ IdleDispatch
    /\ IdleSubscriptions

NextAdd ==
    /\ \/ \E r \in ReqIds, d \in BOOLEAN : StartAdd(r, d)
       \/ \E r \in ReqIds : AddClear(r)
       \/ \E r \in ReqIds : AddCreate(r)
       \/ \E r \in ReqIds : RouteInitReturns(r)
    /\ UNCHANGED <<removals, testApps, treq, intake, codec, creds, dispVars, subsVars>>

SpecAdd == InitAdd /\ [][NextAdd]_vars

\* every add request so far was answered 'Failed to add account' or 'An
\* account with that name already exists', and at least one went to the catch
OnlyFailedAdds ==
    /\ \A r \in ReqIds :
          \/ areq[r].pc = "idle"
          \/ areq[r].pc = "done" /\ areq[r].outcome \in {"failed", "nameExists"}
    /\ \E r \in ReqIds : areq[r].pc = "done" /\ areq[r].outcome = "failed"

\* C37: an add-account request that fails leaves the account store unchanged;
\* the account that was default before is still default.
C37_FailedAddLeavesStore ==
    OnlyFailedAdds => accounts = StoreBeforeAdd

----------------------------------------------------------------------------
(* A provider call of /topics/subscribe or /topics/unsubscribe that throws *)

\* subscribeToTopic / unsubscribeFromTopic of request r throws in this step:
\* the outer catch answers 'Error subscribing to topic: ...'
ProviderThrew(r) ==
    /\ sreq[r].pc = "resolve"
    /\ sreq'[r].pc = "done"
    /\ sreq'[r].outcome = "error"

\* C38: when the provider's subscribe or unsubscribe call throws, the
\* subscription mirror is left exactly as it was, and the request, being
\* finished, writes no row afterwards.
C38_ProviderThrowLeavesMirror ==
    [][\A r \in ReqIds :
          /\ ProviderThrew(r) => subs' = subs
          /\ (sreq[r].pc = "done" /\ sreq[r].outcome = "error") => sreq'[r] = sreq[r]]_vars

\* a provider call has thrown while the mirror held rows
C38_Witness ==
    /\ subs # <<>>
    /\ calls # <<>>
    /\ calls[Len(calls)].threw
    /\ \E r \in ReqIds : sreq[r].pc = "done" /\ sreq[r].outcome = "error"

----------------------------------------------------------------------------
(* POST /devices/:id/delete beside subscriptions and registrations *)

\* the place of a row the transaction has removed; positions of the other
\* rows, which requests in flight hold, stay as they are
DeletedDevice ==
    [id |-> None, token |-> None, isActive |-> FALSE, platform |-> "unknown", lastSeen |-> None]

DeletedSub ==
    [topic |-> "", device |-> None, isActive |-> FALSE, subscribedAt |-> None,
     unsubscribedAt |-> None]

\* Device.findByPk(deviceId)
DeviceDeleteStart(d) ==
    /\ dreq.pc = "idle"
    /\ LET req == NewDispatch("deviceDelete", None) @@ [device |-> d, deviceId |-> None] IN
       dreq' = IF d > Len(devices) \/ devices[d].id = None
               THEN [req EXCEPT !.pc = "done", !.outcome = "notFound"]
               ELSE [req EXCEPT !.pc = "transaction", !.deviceId = devices[d].id]
    /\ UNCHANGED <<poolVars, acctVars, devices, history, calls, subsVars>>

\* sequelize.transaction(): TopicSubscription.destroy({ where: { deviceId } }),
\* device.destroy(), commit; an error in any of them rolls both back
DeviceDeleteTransaction ==
    /\ dreq.pc = "transaction"
    /\ \E ok \in BOOLEAN :
         IF ok
         THEN /\ subs' = [i \in 1..Len(subs) |->
                            IF subs[i].device = dreq.deviceId THEN DeletedSub ELSE subs[i]]
              /\ devices' = [i \in 1..Len(devices) |->
                               IF devices[i].id = dreq.deviceId THEN DeletedDevice
                               ELSE devices[i]]
              /\ dreq' = [dreq EXCEPT !.pc = "done", !.outcome = "deleted"]
         ELSE /\ dreq' = [dreq EXCEPT !.pc = "done", !.outcome = "error"]
              /\ UNCHANGED <<devices, subs>>
    /\ UNCHANGED <<poolVars, acctVars, history, calls, topics, sreq, clock, pairUnique>>

NextDeviceDelete ==
    \/ \E d \in 1..(NTokens + 1) : DeviceDeleteStart(d)
    \/ DeviceDeleteTransaction
    \/ NextSubs

\* the environment client alone, topic 'all', one registered device that is
\* subscribed to it
InitDeviceDelete ==
    /\ accounts = [a \in AccountIds |-> NoAccount]
    /\ firebaseAdmins = PoolOf(TRUE, <<>>)
    /\ IdleCallers
    /\ IdleAccountRoutes
    /\ history = <<>>
    /\ dreq = [pc |-> "idle"]
    /\ calls = <<>>
    /\ topics = [t \in TopicNames |->
                    IF t = "all" THEN [exists |-> TRUE, isActive |-> TRUE] ELSE NoTopic]
    /\ sreq = [r \in ReqIds |-> [pc |-> "idle"]]
    /\ clock = 1
    /\ pairUnique = FALSE
    /\ devices = RegisteredTable(1)
    /\ subs = MirrorRows(1, [i \in Tokens |-> IF i = 1 THEN "active" ELSE "none"])

SpecDeviceDelete == InitDeviceDelete /\ [][NextDeviceDelete]_vars

\* every subscription row the table holds belongs to a device of the table
NoOrphanRows ==
    \A i \in 1..Len(subs) :
        subs[i].topic \in TopicNames =>
            subs[i].device # None /\ IdTaken(devices, subs[i].device)

\* the transaction's step: either the device and all its rows go, or nothing
\* changes
DeleteAllOrNothing ==
    (dreq.pc = "transaction" /\ dreq'.pc = "done") =>
        IF dreq'.outcome = "deleted"
        THEN /\ ~IdTaken(devices', dreq.deviceId)
             /\ \A i \in 1..Len(subs') : subs'[i].device # dreq.deviceId
        ELSE devices' = devices /\ subs' = subs

\* C39: deleting a device removes the device row and all its subscription rows
\* together or not at all, and no subscription row references a removed
\* device, also when a subscribe or a registration for it runs beside the
\* delete.
C39_DeviceDeleteAtomic ==
    [](NoOrphanRows) /\ [][DeleteAllOrNothing]_vars

\* the delete has committed while a subscribe that had found the device was
\* about to write its row, and that write was refused
C39_Witness ==
    /\ dreq.pc = "done" /\ dreq.route = "deviceDelete" /\ dreq.outcome = "deleted"
    /\ \E r \in ReqIds :
          /\ sreq[r].pc = "done"
          /\ sreq[r].kind = "subscribe"
          /\ sreq[r].device = dreq.device
          /\ sreq[r].tokens[1] \in sreq[r].failed

====
